---- MODULE Spec2Model ----
(***************************************************************************)
(* Model of the joinery geometry engine of trapezoid_box:                  *)
(*   core/models.py    Point, Line, Arc, ClosedPath, FingerEdge,           *)
(*                     CommonConfig, TrapezoidGeometry                     *)
(*   core/utils.py     nearly_equal, odd_count, actual_finger_width        *)
(*   core/radii.py     finger_termination_point, corner_arc_segments,      *)
(*                     auto_corner_radius, resolve_corner_radius           *)
(*   core/joints.py    make_finger_edge(_angled),                          *)
(*                     finger_edge_to_path_segments, build_panel_outline   *)
(*   core/trapezoid.py derive                                              *)
(*   core/layout.py    layout_panels (whole millimetres)                   *)
(*   core/transform.py rotate_panel_90cw                                   *)
(*   box/panels.py     build, _make_base, _make_walls, _make_rect_wall,    *)
(*                     _make_leg_wall, _make_test_strip                    *)
(*   box/cli.py        validate_config, run                                *)
(*   instrument/cli.py validate_config, run                                *)
(*                                                                         *)
(* Numbers.  The program computes in floating-point millimetres.  The      *)
(* model computes in integers: a length is a whole number of units, and    *)
(* every operator that compares against FLOAT_TOLERANCE takes the number   *)
(* of units per millimetre (upm) of the values it is given.  Quotients the *)
(* program keeps as floats are kept exact: a finger width is the pair      *)
(* (num, den), and the points of a rendered edge are expressed in units    *)
(* divided by the edge's finger count.  Square roots and quotients that    *)
(* are not exact are rounded to the nearest unit.  Angles are not degrees  *)
(* but the right triangle they come from: the leg angle is atan2(opp, adj) *)
(* and tan, cos and tan(angle/2) are the algebraic expressions in opp, adj *)
(* and hyp = sqrt(opp^2 + adj^2).  A local variable of the program is a    *)
(* variable bound over a one-element set, Only({body : v \in {value}}).    *)
(* A comparison of two floats is the comparison of the exact values; where *)
(* the program compares without an epsilon two values that are equal in    *)
(* exact arithmetic, the rounding decides and either outcome is possible.  *)
(***************************************************************************)
EXTENDS Integers, Sequences, FiniteSets, TLC

VARIABLES
    path,       \* the last ClosedPath construction: segments given, outcome
    args,       \* arguments of the last make_finger_edge(_angled) call
    edge,       \* the FingerEdge it returned
    mate,       \* the FingerEdge of the other side of the same joint
    segs,       \* finger_edge_to_path_segments(edge)
    mateSegs,   \* finger_edge_to_path_segments(mate)
    warns,      \* warnings.warn calls of the last make_finger_edge call
    cfg,        \* CommonConfig given to derive
    geom,       \* TrapezoidGeometry derive returned
    cfg2,       \* CommonConfig of the inverse-mode call
    geom2,      \* TrapezoidGeometry of the inverse-mode call
    box,        \* box mode run: configuration, geometry, radius, panels
    corners,    \* corner_arc_segments at the two ends of the edge
    outline,    \* build_panel_outline of the edge (and its mate) with their arcs
    val,        \* a command-line run: validate_config, derive, resolve_corner_radius
    lay         \* a layout_panels call: its arguments, loop state and result

vars == <<path, args, edge, mate, segs, mateSegs, warns, cfg, geom, cfg2, geom2, box,
          corners, outline, val, lay>>

\* --------------------------------------------------------------------------
\* Arithmetic helpers
\* --------------------------------------------------------------------------

Abs(a) == IF a < 0 THEN -a ELSE a

Max(a, b) == IF a >= b THEN a ELSE b

\* n / d rounded to the nearest integer, halves away from zero (d > 0)
RoundDiv(n, d) == IF n >= 0 THEN (2 * n + d) \div (2 * d) ELSE -((2 * (-n) + d) \div (2 * d))

\* Python's round(n / d): nearest integer, halves to the even neighbour (n >= 0, d > 0)
PyRound(n, d) ==
    LET q == n \div d
        r == n % d
    IN  IF 2 * r < d THEN q
        ELSE IF 2 * r > d THEN q + 1
        ELSE IF q % 2 = 0 THEN q ELSE q + 1

\* largest r in lo..hi-1 with r * r <= n
RECURSIVE ISqrtBin(_, _, _)
ISqrtBin(n, lo, hi) ==
    IF hi - lo <= 1 THEN lo
    ELSE LET mid == (lo + hi) \div 2
         IN  IF mid * mid <= n THEN ISqrtBin(n, mid, hi) ELSE ISqrtBin(n, lo, mid)

\* the value of a local variable: the one element of a one-element set
Only(S) == CHOOSE v \in S : TRUE

\* math.sqrt rounded to the nearest unit (exact on perfect squares); n < 46340^2
Sqrt(n) ==
    Only({IF n - f * f > f THEN f + 1 ELSE f : f \in {ISqrtBin(n, 0, 46340)}})

\* --------------------------------------------------------------------------
\* constants.py
\* --------------------------------------------------------------------------

\* FLOAT_TOLERANCE = 1e-6 mm, kept as its reciprocal
FLOAT_TOLERANCE_INV == 1000000

AUTO_FINGER_WIDTH_FACTOR == 3

AUTO_CORNER_RADIUS_FACTOR == 3

MIN_CORNER_RADIUS_MM == 5

TEST_STRIP_WIDTH_MM == 60

MIN_FINGER_COUNT == 3

\* OVERCUT_MIN_STRUCT_RATIO = 0.5, kept as its reciprocal
OVERCUT_MIN_STRUCT_RATIO_INV == 2

DEFAULT_SHEET_HEIGHT_MM == 600

PANEL_GAP_MM == 10

DEFAULT_KERF_WIDTH_MM == 6

\* FLOAT_TOLERANCE in units, for values that have upm units per millimetre
TolUnits(upm) == upm \div FLOAT_TOLERANCE_INV

\* --------------------------------------------------------------------------
\* core/models.py: Point, Line, ClosedPath
\* --------------------------------------------------------------------------

Point(px, py) == [x |-> px, y |-> py]

Line(s, e) == [kind |-> "Line", start |-> s, end |-> e]

Arc(s, e, radius, large_arc, clockwise) ==
    [kind |-> "Arc", start |-> s, end |-> e, radius |-> radius,
     large_arc |-> large_arc, clockwise |-> clockwise]

_segment_start(seg) == seg.start

_segment_end(seg) == seg.end

\* core/utils.py nearly_equal(a, b): abs(a - b) <= FLOAT_TOLERANCE
nearly_equal(a, b, upm) == Abs(a - b) <= TolUnits(upm)

\* mutant of the closure test: strict comparison
ClosedPathClosed_strict(segments, upm) ==
    LET last_end    == _segment_end(segments[Len(segments)])
        first_start == _segment_start(segments[1])
    IN  /\ Abs(last_end.x - first_start.x) < TolUnits(upm)
        /\ Abs(last_end.y - first_start.y) < TolUnits(upm)

\* ClosedPath.__post_init__, the closure test of lines 122-125
ClosedPathClosed(segments, upm) ==
    LET last_end    == _segment_end(segments[Len(segments)])
        first_start == _segment_start(segments[1])
    IN  /\ Abs(last_end.x - first_start.x) <= TolUnits(upm)
        /\ Abs(last_end.y - first_start.y) <= TolUnits(upm)

\* ClosedPath(segments): the constructed value, or the ValueError raised
ClosedPath(segments, upm) ==
    IF Len(segments) = 0
    THEN [status |-> "ValueError", segments |-> segments, upm |-> upm]
    ELSE IF ~ClosedPathClosed(segments, upm)
    THEN [status |-> "ValueError", segments |-> segments, upm |-> upm]
    ELSE [status |-> "ok", segments |-> segments, upm |-> upm]

NoPath == [status |-> "none", segments |-> <<>>, upm |-> 1]

\* --------------------------------------------------------------------------
\* Angles
\* --------------------------------------------------------------------------

\* the leg angle atan2(opp, adj), kept as its triangle
LegAngle(opp, adj) == [opp |-> opp, adj |-> adj]

Hyp(la) == Sqrt(la.opp * la.opp + la.adj * la.adj)

\* an interior corner angle: 90 degrees + sign * leg angle
Interior(sign, la) == [sign |-> sign, la |-> la]

RightAngle == Interior(0, LegAngle(0, 1))

\* tan(angle / 2) of an interior angle as the fraction num / den:
\* tan(45 + a/2) = (hyp + adj + opp) / (hyp + adj - opp), tan(45 - a/2) its inverse
TanHalf(angle) ==
    Only({IF angle.sign = 0 THEN [num |-> 1, den |-> 1]
          ELSE IF angle.sign > 0
          THEN [num |-> h + angle.la.adj + angle.la.opp, den |-> h + angle.la.adj - angle.la.opp]
          ELSE [num |-> h + angle.la.adj - angle.la.opp, den |-> h + angle.la.adj + angle.la.opp] :
          h \in {Hyp(angle.la)}})

\* --------------------------------------------------------------------------
\* core/radii.py
\* --------------------------------------------------------------------------

\* corner_radius / math.tan(math.radians(internal_angle_deg / 2))
tangent_dist(corner_radius, internal_angle) ==
    Only({RoundDiv(corner_radius * t.den, t.num) : t \in {TanHalf(internal_angle)}})

\* a direction: the vector (x, y) of length len; the unit vector is (x/len, y/len)
Dir(dx, dy) == [x |-> dx, y |-> dy, len |-> Sqrt(dx * dx + dy * dy)]

finger_termination_point(corner_vertex, edge_direction, corner_radius, internal_angle) ==
    Only({Point(corner_vertex.x + RoundDiv(td * edge_direction.x, edge_direction.len),
                corner_vertex.y + RoundDiv(td * edge_direction.y, edge_direction.len)) :
          td \in {tangent_dist(corner_radius, internal_angle)}})

\* mutant: the arc starts beyond the vertex, not before it
ArcStart_beyond(vertex, edge_a_dir, td) ==
    Point(vertex.x + RoundDiv(td * edge_a_dir.x, edge_a_dir.len),
          vertex.y + RoundDiv(td * edge_a_dir.y, edge_a_dir.len))

\* the tangent points of corner_arc_segments, lines 60-67
ArcStart(vertex, edge_a_dir, td) ==
    Point(vertex.x - RoundDiv(td * edge_a_dir.x, edge_a_dir.len),
          vertex.y - RoundDiv(td * edge_a_dir.y, edge_a_dir.len))

ArcEnd(vertex, edge_b_dir, td) ==
    Point(vertex.x + RoundDiv(td * edge_b_dir.x, edge_b_dir.len),
          vertex.y + RoundDiv(td * edge_b_dir.y, edge_b_dir.len))

\* lines 83-90: the Arc between the two tangent points
CornerArc(arc_start, arc_end, corner_radius) ==
    [arc_start |-> arc_start,
     arc |-> Arc(arc_start, arc_end, corner_radius, FALSE, TRUE),
     arc_end |-> arc_end]

\* (arc_start, arc, arc_end) for the corner at vertex, reached along
\* edge_a_dir and left along edge_b_dir.  The bisector of lines 70-73 divides
\* by the length of (-edge_a_dir) + edge_b_dir, which is zero when the two
\* directions are the same.
corner_arc_segments(vertex, edge_a_dir, edge_b_dir, corner_radius, internal_angle) ==
    IF edge_b_dir.x * edge_a_dir.len = edge_a_dir.x * edge_b_dir.len
       /\ edge_b_dir.y * edge_a_dir.len = edge_a_dir.y * edge_b_dir.len
    THEN [status |-> "ZeroDivisionError"]
    ELSE Only({CornerArc(ArcStart(vertex, edge_a_dir, td), ArcEnd(vertex, edge_b_dir, td),
                         corner_radius) :
               td \in {tangent_dist(corner_radius, internal_angle)}})

\* --------------------------------------------------------------------------
\* core/utils.py
\* --------------------------------------------------------------------------

\* mutant: the nearest integer is used as it is, odd or even
odd_count_any(edge_length, finger_width) ==
    Max(MIN_FINGER_COUNT, PyRound(edge_length, finger_width))

odd_count(edge_length, finger_width) ==
    LET n == PyRound(edge_length, finger_width)
        m == IF n % 2 = 0 THEN n - 1 ELSE n
    IN  Max(MIN_FINGER_COUNT, m)

\* mutant: the width is taken from the whole count plus one
actual_finger_width_off(edge_length, count) == [num |-> edge_length, den |-> count + 1]

\* edge_length / count, kept exact
actual_finger_width(edge_length, count) == [num |-> edge_length, den |-> count]

\* --------------------------------------------------------------------------
\* core/joints.py: make_finger_edge, make_finger_edge_angled
\* --------------------------------------------------------------------------

FingerEdge(a, ts, te, fw, n) ==
    [start |-> a.start, end |-> a.end, term_start |-> ts, term_end |-> te,
     finger_width |-> fw, count |-> n, depth |-> a.mating_thickness,
     protrude_outward |-> a.protrude_outward, is_slotted |-> a.is_slotted,
     burn |-> a.burn, tolerance |-> a.tolerance]

EdgeDir(a) == Dir(a.end.x - a.start.x, a.end.y - a.start.y)

NegDir(d) == [x |-> -d.x, y |-> -d.y, len |-> d.len]

\* term_start, lines 56-57
TermStart(a, edge_dir) ==
    finger_termination_point(a.start, edge_dir, a.corner_radius_left, a.internal_angle_left)

\* term_end, lines 58-59
TermEnd(a, edge_dir) ==
    finger_termination_point(a.end, NegDir(edge_dir), a.corner_radius_right, a.internal_angle_right)

\* available_length = math.sqrt((tex - tsx)**2 + (tey - tsy)**2)
AvailableLength(term_start, term_end) ==
    Sqrt((term_end.x - term_start.x) * (term_end.x - term_start.x)
         + (term_end.y - term_start.y) * (term_end.y - term_start.y))

\* mutant: the minimum is taken from the panel's own thickness
MinNeeded_own(a) == a.thickness + 2 * a.burn

\* min_needed = mating_thickness + 2 * burn
MinNeeded(a) == a.mating_thickness + 2 * a.burn

\* target_count = odd_count(available_length, AUTO_FINGER_WIDTH_FACTOR * thickness)
TargetCount(a, available_length) ==
    odd_count(available_length, AUTO_FINGER_WIDTH_FACTOR * a.thickness)

\* max_count = int(available_length / min_needed)
MaxCount(a, available_length) == available_length \div MinNeeded(a)

\* mutant: the reduced count is the floor itself, odd or even
ReducedCount_floor(max_count) == Max(1, max_count)

\* lines 89-93: the largest odd integer <= max_count, minimum 1
ReducedCount(max_count) ==
    LET mc == IF max_count < 1 THEN 1 ELSE max_count
        c  == IF mc % 2 = 1 THEN mc ELSE mc - 1
    IN  Max(1, c)

\* lines 82-111: the count is the target, or the reduced count with a warning
\* when the target does not fit
SolvedEdge(a, term_start, term_end, available_length, target_count, max_count) ==
    IF max_count < target_count
    THEN [status |-> "ok", warnings |-> 1,
          fe |-> FingerEdge(a, term_start, term_end,
                            actual_finger_width(available_length, ReducedCount(max_count)),
                            ReducedCount(max_count))]
    ELSE [status |-> "ok", warnings |-> 0,
          fe |-> FingerEdge(a, term_start, term_end,
                            actual_finger_width(available_length, target_count),
                            target_count)]

\* lines 60-81: a zone shorter than one feature gives a plain edge and a warning
ZoneEdge(a, term_start, term_end, available_length) ==
    IF available_length < MinNeeded(a)
    THEN [status |-> "ok", warnings |-> 1,
          fe |-> FingerEdge(a, term_start, term_end, [num |-> 0, den |-> 1], 0)]
    ELSE Only({SolvedEdge(a, term_start, term_end, available_length, target_count, max_count) :
               target_count \in {TargetCount(a, available_length)},
               max_count \in {MaxCount(a, available_length)}})

\* lines 56-62: the termination points and the length between them
TerminatedEdge(a, term_start, term_end) ==
    Only({ZoneEdge(a, term_start, term_end, available_length) :
          available_length \in {AvailableLength(term_start, term_end)}})

\* lines 46-55: the edge direction; ValueError when start and end coincide
DirectedEdge(a, edge_dir) ==
    IF nearly_equal(edge_dir.len, 0, a.upm)
    THEN [status |-> "ValueError", warnings |-> 0]
    ELSE Only({TerminatedEdge(a, term_start, term_end) :
               term_start \in {TermStart(a, edge_dir)},
               term_end \in {TermEnd(a, edge_dir)}})

\* the edge make_finger_edge returns and the number of warnings it emits,
\* or the ValueError it raises
MakeFingerEdgeResult(a) ==
    Only({DirectedEdge(a, edge_dir) : edge_dir \in {EdgeDir(a)}})

make_finger_edge(a) == MakeFingerEdgeResult(a).fe

\* D_eff = mating_thickness / cos(alpha), alpha = |leg angle|
EffectiveDepth(mating_thickness, la) == RoundDiv(mating_thickness * Hyp(la), la.adj)

\* mutant: the overcut keeps the sign of the leg angle
RotationalOvercut_signed(mating_thickness, la) == RoundDiv(mating_thickness * la.opp, la.adj)

\* W_over = mating_thickness * tan(alpha)
RotationalOvercut(mating_thickness, la) == RoundDiv(mating_thickness * Abs(la.opp), la.adj)

\* the arguments make_finger_edge_angled hands to make_finger_edge
AngledArgs(a, la) ==
    [a EXCEPT !.mating_thickness = EffectiveDepth(a.mating_thickness, la),
              !.tolerance        = a.tolerance + RotationalOvercut(a.mating_thickness, la)]

make_finger_edge_angled(a, la) == make_finger_edge(AngledArgs(a, la))

\* --------------------------------------------------------------------------
\* core/joints.py: finger_edge_to_path_segments
\* The points of the result are in units / PathScale(edge).
\* --------------------------------------------------------------------------

PathScale(e) == IF e.count = 0 THEN 1 ELSE e.finger_width.den

Scaled(p, k) == Point(p.x * k, p.y * k)

\* tab_width = fw + 2 * burn, before the swap of a slotted edge
TabWidth(e) == e.finger_width.num + 2 * e.burn * PathScale(e)

\* mutant: the tolerance is added once, not on both sides
GapWidth_once(e) == e.finger_width.num - 2 * e.burn * PathScale(e) + e.tolerance * PathScale(e)

\* gap_width = fw - 2 * burn + 2 * tol, before the swap of a slotted edge
GapWidth(e) == e.finger_width.num - 2 * e.burn * PathScale(e) + 2 * e.tolerance * PathScale(e)

\* mutant: the depth is drawn without kerf compensation
DepthOut_noburn(e) == e.depth * PathScale(e)

\* depth_out = depth + burn
DepthOut(e) == (e.depth + e.burn) * PathScale(e)

\* the width drawn for feature i (lines 172-174 and 191-192)
FeatureWidth(e, i) ==
    LET is_tab == (i % 2 = 0)
    IN  IF e.is_slotted
        THEN (IF is_tab THEN GapWidth(e) ELSE TabWidth(e))
        ELSE (IF is_tab THEN TabWidth(e) ELSE GapWidth(e))

\* move_along(p, dist) for the edge direction d
move_along(d, p, dist) ==
    Point(p.x + RoundDiv(d.x * dist, d.len), p.y + RoundDiv(d.y * dist, d.len))

\* edge_outward = (edge_dir.y, -edge_dir.x); out_sign = +1 outward, -1 inward
OutSign(e) == IF e.protrude_outward THEN 1 ELSE -1

move_out(d, out_sign, p, dist) ==
    Point(p.x + RoundDiv(d.y * dist * out_sign, d.len),
          p.y + RoundDiv((-d.x) * dist * out_sign, d.len))

\* the segments of feature i, from x0 to x1 (lines 197-216)
FeatureSegments(e, d, i, x0, x1) ==
    IF i % 2 = 0
    THEN Only({<<Line(x0, p_out0), Line(p_out0, p_out1), Line(p_out1, x1)>> :
               p_out0 \in {move_out(d, OutSign(e), x0, DepthOut(e))},
               p_out1 \in {move_out(d, OutSign(e), x1, DepthOut(e))}})
    ELSE <<Line(x0, x1)>>

\* the loop of lines 190-218
RECURSIVE Staircase(_, _, _, _, _)
Staircase(e, d, i, finger_start, acc) ==
    IF i >= e.count THEN acc
    ELSE Only({Staircase(e, d, i + 1, x1, acc \o FeatureSegments(e, d, i, finger_start, x1)) :
               x1 \in {move_along(d, finger_start, FeatureWidth(e, i))}})

\* lines 220-225: a closing Line to term_end unless the staircase ends on it
ClosedStaircase(st, te, upm) ==
    IF ~(nearly_equal(st[Len(st)].end.x, te.x, upm) /\ nearly_equal(st[Len(st)].end.y, te.y, upm))
    THEN Append(st, Line(st[Len(st)].end, te))
    ELSE st

finger_edge_to_path_segments(e, upm) ==
    IF e.count = 0 THEN <<Line(e.start, e.end)>>
    ELSE Only({ClosedStaircase(st, Scaled(e.term_end, PathScale(e)), upm * PathScale(e)) :
               st \in {Staircase(e, Dir(e.end.x - e.start.x, e.end.y - e.start.y), 0,
                                 Scaled(e.term_start, PathScale(e)), <<>>)}})

\* --------------------------------------------------------------------------
\* core/joints.py: build_panel_outline
\* The corner arcs are given in the units of the edges' segments; all edges
\* of one outline have the same PathScale.
\* --------------------------------------------------------------------------

_get_segment_start(seg) == seg.start

_get_segment_end(seg) == seg.end

\* the last point of the edge's path segments
_finger_edge_last_point(e, upm) ==
    Only({IF Len(ss) = 0 THEN Scaled(e.term_end, PathScale(e))
          ELSE _get_segment_end(ss[Len(ss)]) :
          ss \in {finger_edge_to_path_segments(e, upm)}})

SamePoint(p, q, upm) == nearly_equal(p.x, q.x, upm) /\ nearly_equal(p.y, q.y, upm)

\* lines 262-276: a Line to the arc unless it has no length, the arc, a Line
\* to the edge's term_start unless it has no length, the edge's segments
CornerSegments(prev_end, corner, edge_term_start, finger_segs, upm) ==
    (IF ~SamePoint(prev_end, corner.arc_start, upm)
     THEN <<Line(prev_end, corner.arc_start)>> ELSE <<>>)
    \o <<corner.arc>>
    \o (IF ~SamePoint(corner.arc_end, edge_term_start, upm)
        THEN <<Line(corner.arc_end, edge_term_start)>> ELSE <<>>)
    \o finger_segs

\* the loop of lines 251-276
RECURSIVE OutlineSegments(_, _, _, _, _)
OutlineSegments(edges, corner_arcs, upm, i, all_segs) ==
    IF i > Len(edges) THEN all_segs
    ELSE Only({OutlineSegments(edges, corner_arcs, upm, i + 1,
                   all_segs \o CornerSegments(prev_end, corner_arcs[i],
                                              Scaled(edges[i].term_start, PathScale(edges[i])),
                                              finger_segs, upm * PathScale(edges[i]))) :
               prev_end \in {_finger_edge_last_point(
                                 edges[IF i = 1 THEN Len(edges) ELSE i - 1], upm)},
               finger_segs \in {finger_edge_to_path_segments(edges[i], upm)}})

\* lines 278-283: a closing Line unless the last point is on the first
ClosedOutline(all_segs, upm) ==
    IF Len(all_segs) > 0
       /\ ~SamePoint(_get_segment_start(all_segs[1]),
                     _get_segment_end(all_segs[Len(all_segs)]), upm)
    THEN Append(all_segs, Line(_get_segment_end(all_segs[Len(all_segs)]),
                               _get_segment_start(all_segs[1])))
    ELSE all_segs

build_panel_outline(edges, corner_arcs, upm) ==
    Only({ClosedPath(ClosedOutline(all_segs, upm * PathScale(edges[1])),
                     upm * PathScale(edges[1])) :
          all_segs \in {OutlineSegments(edges, corner_arcs, upm, 1, <<>>)}})

\* --------------------------------------------------------------------------
\* core/trapezoid.py: derive
\* --------------------------------------------------------------------------

\* a CommonConfig with exactly one of length and leg given: length_given
\* (length is not None) and leg_given (leg is not None) are opposite;
\* corner_radius is None unless radius_given; finger_width 0 is None; fed
\* names the derived value a caller copied into it ("none" for a
\* configuration typed by the user)
CommonConfig(long, short, length_given, length_or_leg, depth, thickness, dim_mode, burn, tolerance, radius_given, corner_radius, upm) ==
    [set |-> TRUE, fed |-> "none", upm |-> upm, long |-> long, short |-> short,
     dims_given |-> TRUE,
     length_given |-> length_given, leg_given |-> ~length_given,
     length |-> IF length_given THEN length_or_leg ELSE 0,
     leg |-> IF length_given THEN 0 ELSE length_or_leg,
     depth |-> depth, thickness |-> thickness, dim_mode |-> dim_mode,
     burn |-> burn, tolerance |-> tolerance,
     radius_given |-> radius_given, corner_radius |-> corner_radius,
     finger_width |-> 0, sheet_height |-> DEFAULT_SHEET_HEIGHT_MM * upm]

\* mutant: the whole difference of the parallel sides, not its half
LegInset_full(long_o, short_o) == long_o - short_o

\* leg_inset = (long_o - short_o) / 2.0
LegInset(long_o, short_o) == (long_o - short_o) \div 2

\* mutant: mode B adds the squares as mode A does
ModeBLength_sum(leg_len, leg_inset) == Sqrt(leg_len * leg_len + leg_inset * leg_inset)

\* mode B: length_o = math.sqrt(leg_len ** 2 - leg_inset ** 2)
ModeBLength(leg_len, leg_inset) == Sqrt(leg_len * leg_len - leg_inset * leg_inset)

\* mutant: one thickness is added in inner mode
OuterSize_single(config, size) ==
    IF config.dim_mode = "INNER" THEN size + config.thickness ELSE size

\* lines 47-54 and 59: a supplied size plus 2 * t in inner mode
OuterSize(config, size) ==
    IF config.dim_mode = "INNER" THEN size + 2 * config.thickness ELSE size

\* lines 68-84: the TrapezoidGeometry returned (air_volume, a product of
\* three lengths, is left out)
TrapezoidGeometry(t, long_o, short_o, length_o, depth_o, leg_inset, leg_len, leg_angle) ==
    [status |-> "ok",
     long_outer |-> long_o, short_outer |-> short_o,
     length_outer |-> length_o, depth_outer |-> depth_o, thickness |-> t,
     leg_inset |-> leg_inset, leg_length |-> leg_len, leg_angle |-> leg_angle,
     long_end_angle |-> Interior(1, leg_angle),
     short_end_angle |-> Interior(-1, leg_angle),
     long_inner |-> long_o - 2 * t, short_inner |-> short_o - 2 * t,
     length_inner |-> length_o - 2 * t, depth_inner |-> depth_o - 2 * t]

\* derive(config).  Mode A when length is not None, mode B otherwise.  In mode
\* B, leg None fails in leg_len ** 2 (TypeError) and a leg shorter than
\* leg_inset fails in math.sqrt (ValueError, math domain error); a leg equal
\* to leg_inset gives math.sqrt(0.0) = 0.0.
derive(config) ==
    LET t         == config.thickness
        long_o    == OuterSize(config, config.long)
        short_o   == OuterSize(config, config.short)
        depth_o   == OuterSize(config, config.depth)
        leg_inset == LegInset(long_o, short_o)
        length_o  == IF config.length_given
                     THEN OuterSize(config, config.length)
                     ELSE ModeBLength(config.leg, leg_inset)
        leg_len   == IF config.length_given
                     THEN Sqrt(length_o * length_o + leg_inset * leg_inset)
                     ELSE config.leg
        leg_angle == LegAngle(leg_inset, length_o)
    IN  IF ~config.length_given /\ ~config.leg_given
        THEN [status |-> "TypeError"]
        ELSE IF ~config.length_given
                /\ config.leg * config.leg - leg_inset * leg_inset < 0
        THEN [status |-> "ValueError"]
        ELSE TrapezoidGeometry(t, long_o, short_o, length_o, depth_o,
                               leg_inset, leg_len, leg_angle)

\* --------------------------------------------------------------------------
\* core/radii.py: auto_corner_radius, resolve_corner_radius
\* --------------------------------------------------------------------------

\* max(MIN_CORNER_RADIUS_MM, round(AUTO_CORNER_RADIUS_FACTOR * thickness)), in units
auto_corner_radius(thickness, upm) ==
    Max(MIN_CORNER_RADIUS_MM, PyRound(AUTO_CORNER_RADIUS_FACTOR * thickness, upm)) * upm

\* mutant: a radius of exactly half the short side or half the depth is accepted
resolve_corner_radius_lenient(config, g) ==
    LET r == IF config.radius_given THEN config.corner_radius
             ELSE auto_corner_radius(config.thickness, config.upm)
    IN  IF 2 * r > g.short_outer THEN [status |-> "ValueError", radius |-> r]
        ELSE IF 2 * r > g.depth_outer THEN [status |-> "ValueError", radius |-> r]
        ELSE [status |-> "ok", radius |-> r]

\* the radius, or "ValueError" when it does not fit the short side or the depth
resolve_corner_radius(config, g) ==
    LET r == IF config.radius_given THEN config.corner_radius
             ELSE auto_corner_radius(config.thickness, config.upm)
    IN  IF 2 * r >= g.short_outer THEN [status |-> "ValueError", radius |-> r]
        ELSE IF 2 * r >= g.depth_outer THEN [status |-> "ValueError", radius |-> r]
        ELSE [status |-> "ok", radius |-> r]

\* --------------------------------------------------------------------------
\* box/panels.py: build, _make_base, _make_walls, _make_rect_wall,
\* _make_leg_wall, _make_test_strip.  A panel is the record of its four
\* finger edges.
\* --------------------------------------------------------------------------

\* the positional arguments of make_finger_edge / make_finger_edge_angled
EdgeArgs(upm, start, end, thickness, mating_thickness, protrude_outward, is_slotted, burn, tolerance, radius_left, radius_right, angle_left, angle_right) ==
    [upm |-> upm, angled |-> FALSE, leg_angle |-> LegAngle(0, 1),
     start |-> start, end |-> end,
     thickness |-> thickness, mating_thickness |-> mating_thickness,
     protrude_outward |-> protrude_outward, is_slotted |-> is_slotted,
     burn |-> burn, tolerance |-> tolerance,
     corner_radius_left |-> radius_left, corner_radius_right |-> radius_right,
     internal_angle_left |-> angle_left, internal_angle_right |-> angle_right]

_make_base(g, radius, protrude_outward, burn, tol, upm) ==
    LET t   == g.thickness
        lo  == g.long_outer
        so  == g.short_outer
        L   == g.length_outer
        li  == g.leg_inset
        la  == g.leg_angle
        lea == g.long_end_angle
        sea == g.short_end_angle
        TL  == Point(li, 0)
        TR  == Point(li + so, 0)
        BR  == Point(lo, L)
        BL  == Point(0, L)
    IN  [e_short |-> make_finger_edge(
             EdgeArgs(upm, TL, TR, t, t, protrude_outward, FALSE, burn, tol,
                      radius, radius, lea, lea)),
         e_leg_r |-> make_finger_edge_angled(
             EdgeArgs(upm, TR, BR, t, t, protrude_outward, FALSE, burn, tol,
                      radius, radius, lea, sea), la),
         e_long  |-> make_finger_edge(
             EdgeArgs(upm, BR, BL, t, t, protrude_outward, FALSE, burn, tol,
                      radius, radius, sea, sea)),
         e_leg_l |-> make_finger_edge_angled(
             EdgeArgs(upm, BL, TL, t, t, protrude_outward, FALSE, burn, tol,
                      radius, radius, sea, lea), la)]

_make_rect_wall(width, height, thickness, radius, protrude_outward, burn, tol, bottom_slotted, top_slotted, upm) ==
    LET w  == width
        h  == height
        t  == thickness
        TL == Point(0, 0)
        TR == Point(w, 0)
        BR == Point(w, h)
        BL == Point(0, h)
    IN  [e_top    |-> make_finger_edge(
             EdgeArgs(upm, TL, TR, t, t, protrude_outward, top_slotted, burn, tol,
                      radius, radius, RightAngle, RightAngle)),
         e_right  |-> make_finger_edge(
             EdgeArgs(upm, TR, BR, t, t, protrude_outward, FALSE, burn, tol,
                      radius, radius, RightAngle, RightAngle)),
         e_bottom |-> make_finger_edge(
             EdgeArgs(upm, BR, BL, t, t, protrude_outward, bottom_slotted, burn, tol,
                      radius, radius, RightAngle, RightAngle)),
         e_left   |-> make_finger_edge(
             EdgeArgs(upm, BL, TL, t, t, protrude_outward, FALSE, burn, tol,
                      radius, radius, RightAngle, RightAngle))]

_make_leg_wall(width, height, thickness, radius, protrude_outward, burn, tol, leg_angle, upm) ==
    LET w  == width
        h  == height
        t  == thickness
        TL == Point(0, 0)
        TR == Point(w, 0)
        BR == Point(w, h)
        BL == Point(0, h)
    IN  [e_top    |-> make_finger_edge(
             EdgeArgs(upm, TL, TR, t, t, protrude_outward, TRUE, burn, tol,
                      radius, radius, RightAngle, RightAngle)),
         e_right  |-> make_finger_edge(
             EdgeArgs(upm, TR, BR, t, t, protrude_outward, FALSE, burn, tol,
                      radius, radius, RightAngle, RightAngle)),
         e_bottom |-> make_finger_edge_angled(
             EdgeArgs(upm, BR, BL, t, t, protrude_outward, TRUE, burn, tol,
                      radius, radius, RightAngle, RightAngle), leg_angle),
         e_left   |-> make_finger_edge(
             EdgeArgs(upm, BL, TL, t, t, protrude_outward, FALSE, burn, tol,
                      radius, radius, RightAngle, RightAngle))]

\* WALL_LONG, WALL_SHORT, WALL_LEG_LEFT; WALL_LEG_RIGHT is a copy of WALL_LEG_LEFT
_make_walls(g, radius, protrude_outward, burn, tol, upm) ==
    LET leg_left == _make_leg_wall(g.leg_length, g.depth_outer, g.thickness, radius,
                                   protrude_outward, burn, tol, g.leg_angle, upm)
    IN  [WALL_LONG  |-> _make_rect_wall(g.long_outer, g.depth_outer, g.thickness, radius,
                                        protrude_outward, burn, tol, TRUE, TRUE, upm),
         WALL_SHORT |-> _make_rect_wall(g.short_outer, g.depth_outer, g.thickness, radius,
                                        protrude_outward, burn, tol, TRUE, TRUE, upm),
         WALL_LEG_LEFT  |-> leg_left,
         WALL_LEG_RIGHT |-> leg_left]

\* TEST_STRIP: TEST_STRIP_WIDTH_MM wide, 3 * depth high
_make_test_strip(g, radius, protrude_outward, burn, tol, upm) ==
    _make_rect_wall(TEST_STRIP_WIDTH_MM * upm, 3 * g.depth_outer, g.thickness, radius,
                    protrude_outward, burn, tol, TRUE, TRUE, upm)

\* mutant: the thickness behind the target finger width follows the configured
\* finger_width
build_override(config, g, radius) ==
    Only({[BASE |-> _make_base(h, radius, FALSE, config.burn, config.tolerance, config.upm),
           WALL_LONG |-> walls.WALL_LONG, WALL_SHORT |-> walls.WALL_SHORT,
           WALL_LEG_LEFT |-> walls.WALL_LEG_LEFT, WALL_LEG_RIGHT |-> walls.WALL_LEG_RIGHT,
           TEST_STRIP |-> _make_test_strip(h, radius, FALSE, config.burn, config.tolerance,
                                           config.upm)] :
          h \in {[g EXCEPT !.thickness =
                      (IF config.finger_width # 0 THEN config.finger_width
                       ELSE AUTO_FINGER_WIDTH_FACTOR * g.thickness)
                          \div AUTO_FINGER_WIDTH_FACTOR]},
          walls \in {_make_walls(g, radius, FALSE, config.burn, config.tolerance, config.upm)}})

\* build(config, geom, radius): in box mode every finger is inward
build(config, g, radius) ==
    LET protrude_outward == FALSE
        walls == _make_walls(g, radius, protrude_outward, config.burn, config.tolerance, config.upm)
    IN  [BASE |-> _make_base(g, radius, protrude_outward, config.burn, config.tolerance, config.upm),
         WALL_LONG |-> walls.WALL_LONG, WALL_SHORT |-> walls.WALL_SHORT,
         WALL_LEG_LEFT |-> walls.WALL_LEG_LEFT, WALL_LEG_RIGHT |-> walls.WALL_LEG_RIGHT,
         TEST_STRIP |-> _make_test_strip(g, radius, protrude_outward, config.burn,
                                         config.tolerance, config.upm)]

\* --------------------------------------------------------------------------
\* Values of the variables before anything has run
\* --------------------------------------------------------------------------

NoArgs == [upm |-> 0]

\* no edge built yet; RaisedEdge: make_finger_edge raised ValueError
NoEdge == [count |-> -1]

RaisedEdge == [count |-> -2]

NoCfg == [set |-> FALSE]

NoGeom == [status |-> "none"]

NoBox == [status |-> "none"]

NoCorners == [status |-> "none"]

NoOutline == [status |-> "none"]

NoRun == [status |-> "none"]

\* every variable of the other specifications stays at its idle value
IdlePath == path = NoPath

IdleJoint ==
    /\ args = NoArgs /\ edge = NoEdge /\ mate = NoEdge
    /\ segs = <<>> /\ mateSegs = <<>> /\ warns = 0
    /\ corners = NoCorners /\ outline = NoOutline

IdleDerive == cfg = NoCfg /\ geom = NoGeom /\ cfg2 = NoCfg /\ geom2 = NoGeom

IdleBox == box = NoBox

IdleValidate == val = NoRun

NoLayout == [status |-> "none"]

IdleLayout == lay = NoLayout

\* --------------------------------------------------------------------------
\* box/cli.py and instrument/cli.py: validate_config
\* The result is the set of error codes reported, whether derive was called
\* and what it returned.
\* --------------------------------------------------------------------------

Validation(errors, derived, g) == [errors |-> errors, derived |-> derived, geom |-> g]

ErrorIf(condition, code) == IF condition THEN {code} ELSE {}

\* thickness < depth / 2 and thickness < short / 4
ThicknessErrors(c) ==
    ErrorIf(2 * c.thickness >= c.depth, "VALIDATION_THICKNESS_TOO_LARGE")
    \cup ErrorIf(4 * c.thickness >= c.short, "VALIDATION_THICKNESS_TOO_LARGE")

\* 3 * depth > sheet_height
TestStripErrors(c) == ErrorIf(3 * c.depth > c.sheet_height, "VALIDATION_TEST_STRIP_TOO_TALL")

\* box mode: leg <= (long - short) / 2.0 when a leg is given
LegErrors(c) ==
    ErrorIf(c.leg_given /\ 2 * c.leg <= c.long - c.short, "VALIDATION_LEG_TOO_SHORT")

\* fw = c.finger_width if c.finger_width else AUTO_FINGER_WIDTH_FACTOR * c.thickness
StructFingerWidth(c) ==
    IF c.finger_width # 0 THEN c.finger_width ELSE AUTO_FINGER_WIDTH_FACTOR * c.thickness

\* fw - tolerance - thickness * tan(leg_angle) against thickness / 2 in exact
\* arithmetic, with tan(leg_angle) = opp / adj and both sides multiplied by
\* 2 * adj: negative, zero or positive
StructMargin(c, fw, la) ==
    OVERCUT_MIN_STRUCT_RATIO_INV * ((fw - c.tolerance) * la.adj - c.thickness * la.opp)
        - c.thickness * la.adj

\* W_struct < thickness * OVERCUT_MIN_STRUCT_RATIO, where
\* W_struct = fw - tolerance - thickness * tan(radians(leg_angle_deg)) is
\* computed in double precision and compared without an epsilon.  Where the
\* two sides differ the rounding error cannot change the order; where they
\* are equal in exact arithmetic the outcome is the rounding of W_struct:
\* rounded_down says whether it fell below thickness / 2.  At 90 degrees
\* (adj = 0 < opp) math.tan is 1.6e16 and the tab is too thin; at -90
\* degrees it is -1.6e16.
StructTabTooThin(c, fw, la, rounded_down) ==
    IF la.adj > 0
    THEN Only({m < 0 \/ (m = 0 /\ rounded_down) : m \in {StructMargin(c, fw, la)}})
    ELSE IF la.opp # 0 THEN la.opp > 0
    ELSE OVERCUT_MIN_STRUCT_RATIO_INV * (fw - c.tolerance) < c.thickness

StructErrors(c, g, rounded_down) ==
    ErrorIf(StructTabTooThin(c, StructFingerWidth(c), g.leg_angle, rounded_down),
            "VALIDATION_STRUCT_TAB_TOO_THIN")

\* leg_angle_deg >= degrees(acos(thickness / (thickness + tolerance))):
\* the cosine of the leg angle, length_outer / leg_length, is at most
\* thickness / (thickness + tolerance)
GrooveTooSteep(c, g) ==
    /\ g.leg_inset >= 0
    /\ g.length_outer * (c.thickness + c.tolerance) <= c.thickness * g.leg_length

\* box mode, lid == LidType.SLIDING
SlidingLidErrors(c, lid, g) ==
    IF lid # "sliding" THEN {}
    ELSE ErrorIf(c.depth <= 3 * c.thickness, "VALIDATION_GROOVE_ANGLE_TOO_STEEP")
         \cup ErrorIf(GrooveTooSteep(c, g), "VALIDATION_GROOVE_ANGLE_TOO_STEEP")

\* box/cli.py lines 238-270: the checks on the derived geometry
BoxGeometryChecked(c, lid, errors, g, rounded_down) ==
    IF g.status # "ok" THEN Validation(errors \cup {"VALIDATION_GEOMETRY"}, TRUE, g)
    ELSE Validation(errors \cup LegErrors(c) \cup StructErrors(c, g, rounded_down)
                        \cup SlidingLidErrors(c, lid, g), TRUE, g)

\* box/cli.py lines 198-236, after the order checks
BoxDimensionsChecked(c, lid, errors, rounded_down) ==
    IF ~c.length_given /\ ~c.leg_given
    THEN Validation(errors \cup {"VALIDATION_MISSING_LENGTH_OR_LEG"}, FALSE, NoGeom)
    ELSE IF c.length_given /\ c.leg_given
    THEN Validation(errors \cup {"VALIDATION_EXCLUSIVE_LENGTH_LEG"}, FALSE, NoGeom)
    ELSE IF c.depth <= 0
    THEN Validation(errors \cup {"VALIDATION_DEPTH_ZERO"}, FALSE, NoGeom)
    ELSE Only({BoxGeometryChecked(c, lid,
                   errors \cup ThicknessErrors(c) \cup TestStripErrors(c), g, rounded_down) :
               g \in {derive(c)}})

\* validate_config of box/cli.py
box_validate_config(c, lid, rounded_down) ==
    IF ~c.dims_given THEN Validation({"VALIDATION_MISSING_DIMS"}, FALSE, NoGeom)
    ELSE BoxDimensionsChecked(c, lid,
             ErrorIf(c.long <= c.short, "VALIDATION_LONG_SHORT_ORDER")
             \cup ErrorIf(c.short <= 0, "VALIDATION_LONG_SHORT_ORDER"), rounded_down)

\* the instrument settings validate_config reads; no rounded-trapezoid
\* sound hole is configured
InstrumentSettings(scale_length_given, scale_length, kerf_width) ==
    [scale_length_given |-> scale_length_given, scale_length |-> scale_length,
     kerf_width |-> kerf_width, soundhole_type |-> "none"]

\* instrument/cli.py lines 278-302: the checks on the derived geometry
InstrumentGeometryChecked(c, inst, errors, g, rounded_down) ==
    IF g.status # "ok" THEN Validation(errors \cup {"VALIDATION_GEOMETRY"}, TRUE, g)
    ELSE Validation(errors \cup StructErrors(c, g, rounded_down)
                        \cup ErrorIf(inst.scale_length_given
                                      /\ inst.scale_length <= g.length_outer,
                                     "VALIDATION_SCALE_LENGTH")
                        \cup ErrorIf(inst.kerf_width >= 4 * c.thickness,
                                     "VALIDATION_KERF_WIDTH"), TRUE, g)

\* instrument/cli.py lines 255-276, after the order check
InstrumentDimensionsChecked(c, inst, errors, rounded_down) ==
    IF ~c.length_given /\ ~c.leg_given
    THEN Validation(errors \cup {"VALIDATION_MISSING_LENGTH_OR_LEG"}, FALSE, NoGeom)
    ELSE IF c.depth <= 0
    THEN Validation(errors \cup {"VALIDATION_DEPTH_ZERO"}, FALSE, NoGeom)
    ELSE Only({InstrumentGeometryChecked(c, inst,
                   errors \cup ThicknessErrors(c) \cup TestStripErrors(c), g, rounded_down) :
               g \in {derive(c)}})

\* validate_config of instrument/cli.py
instrument_validate_config(c, inst, rounded_down) ==
    IF ~c.dims_given THEN Validation({"VALIDATION_MISSING_DIMS"}, FALSE, NoGeom)
    ELSE InstrumentDimensionsChecked(c, inst,
             ErrorIf(c.long <= c.short, "VALIDATION_LONG_SHORT_ORDER"), rounded_down)

\* --------------------------------------------------------------------------
\* core/transform.py: rotate_panel_90cw; core/layout.py: layout_panels
\* Lengths are whole millimetres.  A panel is the record of its type, its
\* nominal width and height, the segments of its outline and its grain
\* angle; id is the position of the Panel object in the input list.  The
\* panels carry no holes, score lines or marks.
\* --------------------------------------------------------------------------

Panel(id, type, width, height, segments) ==
    [id |-> id, type |-> type, width |-> width, height |-> height,
     outline |-> segments, grain_angle_deg |-> 0]

\* rot: (x, y) -> (y, w - x)
rot(p, w) == Point(p.y, w - p.x)

rot_seg(seg, w) ==
    IF seg.kind = "Line" THEN Line(rot(seg.start, w), rot(seg.end, w))
    ELSE Arc(rot(seg.start, w), rot(seg.end, w), seg.radius, seg.large_arc, seg.clockwise)

rot_path(segments, w) == [i \in 1..Len(segments) |-> rot_seg(segments[i], w)]

\* mutant: the nominal width and height are not swapped
rotate_panel_keepsize(panel) ==
    [panel EXCEPT !.outline = rot_path(panel.outline, panel.width),
                  !.grain_angle_deg = panel.grain_angle_deg + 90]

\* dataclasses.replace(panel, outline=..., width=panel.height, height=panel.width,
\* grain_angle_deg=panel.grain_angle_deg + 90.0): a new Panel
rotate_panel_90cw(panel) ==
    [panel EXCEPT !.outline = rot_path(panel.outline, panel.width),
                  !.width = panel.height, !.height = panel.width,
                  !.grain_angle_deg = panel.grain_angle_deg + 90]

FIXED_GRAIN == {"BASE", "SOUNDBOARD"}

longest(p) == Max(p.width, p.height)

\* sorted(other, key=longest, reverse=True): panels of equal key keep their
\* order
InsertByLongest(sorted, p) ==
    LET k == Cardinality({i \in 1..Len(sorted) : longest(sorted[i]) >= longest(p)})
    IN  SubSeq(sorted, 1, k) \o <<p>> \o SubSeq(sorted, k + 1, Len(sorted))

RECURSIVE SortedByLongest(_)
SortedByLongest(ps) ==
    IF ps = <<>> THEN <<>>
    ELSE InsertByLongest(SortedByLongest(SubSeq(ps, 1, Len(ps) - 1)), ps[Len(ps)])

IsTestStrip(p) == p.type = "TEST_STRIP"

IsOther(p) == p.type # "TEST_STRIP"

\* mutant: a panel of fixed grain is rotated like any other
try_place_anygrain(panel, x, sheet_width) ==
    IF x + panel.width + PANEL_GAP_MM <= sheet_width + PANEL_GAP_MM
    THEN [placed |-> TRUE, panel |-> panel]
    ELSE IF x + panel.height + PANEL_GAP_MM <= sheet_width + PANEL_GAP_MM
    THEN [placed |-> TRUE, panel |-> rotate_panel_90cw(panel)]
    ELSE [placed |-> FALSE, panel |-> panel]

\* try_place(panel) at the current x: the panel as given, the panel rotated,
\* or None
try_place(panel, x, sheet_width) ==
    IF x + panel.width + PANEL_GAP_MM <= sheet_width + PANEL_GAP_MM
    THEN [placed |-> TRUE, panel |-> panel]
    ELSE IF panel.type \notin FIXED_GRAIN
            /\ x + panel.height + PANEL_GAP_MM <= sheet_width + PANEL_GAP_MM
    THEN [placed |-> TRUE, panel |-> rotate_panel_90cw(panel)]
    ELSE [placed |-> FALSE, panel |-> panel]

\* one (Panel, origin, sheet_index) triple of the result
Placement(p, x, y, sheet_index) == [panel |-> p, origin |-> Point(x, y), sheet |-> sheet_index]

\* the local variables of layout_panels
LoopState(result, sheet_index, x, y, row_height) ==
    [result |-> result, sheet_index |-> sheet_index, x |-> x, y |-> y,
     row_height |-> row_height]

\* lines 67-81: a panel wider than the sheet gets a row of its own
PlacedOversized(l, panel, sheet_height) ==
    LET y1    == IF l.row_height > 0 THEN l.y + l.row_height + PANEL_GAP_MM ELSE l.y
        fresh == y1 + panel.height + PANEL_GAP_MM > sheet_height /\ y1 > PANEL_GAP_MM
        idx   == IF fresh THEN l.sheet_index + 1 ELSE l.sheet_index
        y2    == IF fresh THEN PANEL_GAP_MM ELSE y1
    IN  LoopState(Append(l.result, Placement(panel, PANEL_GAP_MM, y2, idx)), idx,
                  PANEL_GAP_MM, y2 + panel.height + PANEL_GAP_MM, 0)

\* lines 84-88 and 104-108: p goes to (x, y) of the current row
PlacedInRow(l, p) ==
    LoopState(Append(l.result, Placement(p, l.x, l.y, l.sheet_index)), l.sheet_index,
              l.x + p.width + PANEL_GAP_MM, l.y, Max(l.row_height, p.height))

\* mutant: the next row starts one gap below the current one, whatever the
\* height of the panels in it
NewRow_gaponly(l, panel, sheet_height) ==
    LET y1    == l.y + PANEL_GAP_MM
        fresh == y1 + panel.height + PANEL_GAP_MM > sheet_height
    IN  LoopState(l.result, IF fresh THEN l.sheet_index + 1 ELSE l.sheet_index,
                  PANEL_GAP_MM, IF fresh THEN PANEL_GAP_MM ELSE y1, 0)

\* lines 90-100: start a new row, on a new sheet when the panel does not fit
\* below
NewRow(l, panel, sheet_height) ==
    LET y1    == l.y + l.row_height + PANEL_GAP_MM
        fresh == y1 + panel.height + PANEL_GAP_MM > sheet_height
    IN  LoopState(l.result, IF fresh THEN l.sheet_index + 1 ELSE l.sheet_index,
                  PANEL_GAP_MM, IF fresh THEN PANEL_GAP_MM ELSE y1, 0)

\* lines 102-113: placed in the new row, as try_place returns it or, when it
\* returns None, forced in natural orientation
PlacedInNewRow(l, panel, sheet_width, sheet_height) ==
    LET n == NewRow(l, panel, sheet_height)
    IN  PlacedInRow(n, try_place(panel, n.x, sheet_width).panel)

\* mutant: the test strips go to the sheet of the first placed panel
LastSheet_first(result) == IF result = <<>> THEN 0 ELSE result[1].sheet

\* last_sheet = max((idx for _, _, idx in result), default=0)
LastSheet(result) ==
    IF result = <<>> THEN 0
    ELSE CHOOSE m \in {result[i].sheet : i \in 1..Len(result)} :
             \A i \in 1..Len(result) : result[i].sheet <= m

\* ts_y: below the last triple of the last sheet by the largest height on
\* that sheet and a gap
TestStripY(result, last_sheet) ==
    LET on_last == {i \in 1..Len(result) : result[i].sheet = last_sheet}
    IN  IF on_last = {} THEN PANEL_GAP_MM
        ELSE LET last == CHOOSE i \in on_last : \A j \in on_last : j <= i
                 high == CHOOSE h \in {result[i].panel.height : i \in on_last} :
                             \A i \in on_last : result[i].panel.height <= h
             IN  result[last].origin.y + high + PANEL_GAP_MM

\* lines 130-135: one test strip; x is ts_x, y is ts_y, sheet_index is
\* last_sheet
PlacedTestStrip(l, ts, sheet_height) ==
    LET fresh == l.y + ts.height + PANEL_GAP_MM > sheet_height
        idx   == IF fresh THEN l.sheet_index + 1 ELSE l.sheet_index
        y2    == IF fresh THEN PANEL_GAP_MM ELSE l.y
    IN  LoopState(Append(l.result, Placement(ts, l.x, y2, idx)), idx,
                  l.x + ts.width + PANEL_GAP_MM, y2, l.row_height)

\* box/cli.py run: num_sheets = max(idx for _, _, idx in layout) + 1
NumSheets(result) == LastSheet(result) + 1

\* svg_writer.write: one file per sheet index that occurs in the layout
SheetsWritten(result) == {result[i].sheet : i \in 1..Len(result)}

\* --------------------------------------------------------------------------
\* SpecPath: ClosedPath construction
\* Coordinates have PathUpm units per millimetre, so FLOAT_TOLERANCE is
\* PathTol = 10 units.
\* --------------------------------------------------------------------------

PathUpm == 10 * FLOAT_TOLERANCE_INV

PathTol == TolUnits(PathUpm)

\* longest segment tuple tried
MaxSegments == 2

PathXs == {0, PathTol, PathTol + 1}

PathYs == {0, PathTol - 2}

PathPoints == {Point(px, py) : px \in PathXs, py \in PathYs}

PathSegs == {Line(s, e) : s \in PathPoints, e \in PathPoints}

SegmentTuples == UNION {[1..n -> PathSegs] : n \in 0..MaxSegments}

\* the caller holds a tuple of segments
InitPath ==
    /\ \E t \in SegmentTuples : path = [status |-> "new", segments |-> t, upm |-> PathUpm]
    /\ IdleJoint /\ IdleDerive /\ IdleBox /\ IdleValidate /\ IdleLayout

\* ClosedPath(tuple(segments))
NewClosedPath ==
    /\ path.status = "new"
    /\ path' = ClosedPath(path.segments, path.upm)
    /\ UNCHANGED <<lay, corners, outline, val, args, edge, mate, segs, mateSegs, warns, cfg, geom, cfg2, geom2, box>>

NextPath == NewClosedPath

SpecPath == InitPath /\ [][NextPath]_vars

\* --------------------------------------------------------------------------
\* SpecJoint: make_finger_edge, make_finger_edge_angled and
\* finger_edge_to_path_segments on one edge and on the other side of its joint
\* Lengths have UPM units per millimetre (0.01 mm).
\* --------------------------------------------------------------------------

UPM == 10 * 10

\* edge lengths tried: 0 .. MaxLenSteps steps of 9 mm
MaxLenSteps == 6

LenStep == 9 * UPM

JointThickness == 3 * UPM

JointBurns == {0, UPM \div 20}

JointTolerances == {0, UPM \div 10}

\* no fillet, a 2 mm fillet, and a 12 mm fillet, whose tangent points pass
\* each other on a 9 mm or 18 mm edge
JointRadii == {0, 2 * UPM, 12 * UPM}

\* the leg angle atan2(3, 4): cos = 4/5, tan = 3/4
JointLegAngle == LegAngle(3, 4)

\* corner angles at the two ends: both right, or those of a trapezoid leg
JointAngles == {<<RightAngle, RightAngle>>,
                <<Interior(1, JointLegAngle), Interior(-1, JointLegAngle)>>}

JointDirections == {Point(1, 0), Point(0, 1), Point(-1, 0), Point(0, -1)}

\* the leg angles given to make_finger_edge_angled: atan2(3, 4), its negative
\* and 0
JointLegAngles == {JointLegAngle, LegAngle(-3, 4), LegAngle(0, 1)}

\* make_finger_edge takes no leg angle: leg_angle is JointLegAngle when the
\* call is not angled.  The 12 mm fillet is tried without burn and tolerance
\* on a mating thickness of one sheet, the negative and the zero leg angle
\* without tolerance.
JointArgs ==
    {a \in {[upm |-> UPM, angled |-> ang, leg_angle |-> la,
             start |-> Point(0, 0), end |-> Point(d.x * k * LenStep, d.y * k * LenStep),
             thickness |-> JointThickness, mating_thickness |-> m,
             protrude_outward |-> po, is_slotted |-> sl, burn |-> b, tolerance |-> t,
             corner_radius_left |-> r, corner_radius_right |-> r,
             internal_angle_left |-> an[1], internal_angle_right |-> an[2]] :
                ang \in BOOLEAN, la \in JointLegAngles,
                d \in JointDirections, k \in 0..MaxLenSteps,
                m \in {JointThickness, 2 * JointThickness},
                po \in BOOLEAN, sl \in BOOLEAN, b \in JointBurns, t \in JointTolerances,
                r \in JointRadii, an \in JointAngles} :
        /\ a.angled \/ a.leg_angle = JointLegAngle
        /\ a.corner_radius_left = 12 * UPM =>
               (a.burn = 0 /\ a.tolerance = 0 /\ a.mating_thickness = JointThickness)
        /\ a.leg_angle # JointLegAngle => a.tolerance = 0}

\* the caller holds the arguments of one call
InitJoint ==
    /\ args \in JointArgs
    /\ edge = NoEdge /\ mate = NoEdge /\ segs = <<>> /\ mateSegs = <<>> /\ warns = 0
    /\ corners = NoCorners /\ outline = NoOutline
    /\ IdlePath /\ IdleDerive /\ IdleBox /\ IdleValidate /\ IdleLayout

\* the call the arguments describe
CallResult(a) ==
    IF a.angled THEN MakeFingerEdgeResult(AngledArgs(a, a.leg_angle))
    ELSE MakeFingerEdgeResult(a)

ResultEdge(r) == IF r.status = "ok" THEN r.fe ELSE RaisedEdge

MakeFingerEdge ==
    /\ edge = NoEdge /\ ~args.angled
    /\ LET r == MakeFingerEdgeResult(args)
       IN  edge' = ResultEdge(r) /\ warns' = r.warnings
    /\ UNCHANGED <<lay, corners, outline, val, path, args, mate, segs, mateSegs, cfg, geom, cfg2, geom2, box>>

MakeFingerEdgeAngled ==
    /\ edge = NoEdge /\ args.angled
    /\ LET r == MakeFingerEdgeResult(AngledArgs(args, args.leg_angle))
       IN  edge' = ResultEdge(r) /\ warns' = r.warnings
    /\ UNCHANGED <<lay, corners, outline, val, path, args, mate, segs, mateSegs, cfg, geom, cfg2, geom2, box>>

\* the mating panel builds the other side of the joint: the same call with
\* is_slotted reversed
MakeMatingEdge ==
    /\ edge.count >= 0 /\ mate = NoEdge /\ segs = <<>>
    /\ mate' = ResultEdge(CallResult([args EXCEPT !.is_slotted = ~args.is_slotted]))
    /\ UNCHANGED <<lay, corners, outline, val, path, args, edge, segs, mateSegs, warns, cfg, geom, cfg2, geom2, box>>

\* finger_edge_to_path_segments on the edge and, when built, on its mate
ToPathSegments ==
    /\ edge.count >= 0 /\ segs = <<>>
    /\ segs' = finger_edge_to_path_segments(edge, args.upm)
    /\ mateSegs' = IF mate.count >= 0 THEN finger_edge_to_path_segments(mate, args.upm) ELSE <<>>
    /\ UNCHANGED <<lay, corners, outline, val, path, args, edge, mate, warns, cfg, geom, cfg2, geom2, box>>

\* the neighbouring edges of a clockwise rectangle: the edge before arrives at
\* start along (dy, -dx), the edge after leaves end along (-dy, dx)
ArrivingDir(d) == [x |-> d.y, y |-> -d.x, len |-> d.len]

DepartingDir(d) == [x |-> -d.y, y |-> d.x, len |-> d.len]

\* corner_arc_segments for the corner at start and for the corner at end, with
\* the radii and angles the edge was built with
EdgeCorners(a, d) ==
    [status |-> "built",
     at_start |-> corner_arc_segments(a.start, ArrivingDir(d), d,
                                      a.corner_radius_left, a.internal_angle_left),
     at_end   |-> corner_arc_segments(a.end, d, DepartingDir(d),
                                      a.corner_radius_right, a.internal_angle_right)]

CornerArcs ==
    /\ edge.count >= 0 /\ segs # <<>> /\ corners = NoCorners
    /\ corners' = EdgeCorners(args, EdgeDir(args))
    /\ UNCHANGED <<lay, path, args, edge, mate, segs, mateSegs, warns, cfg, geom, cfg2, geom2,
                   box, outline, val>>

\* corner arcs that join a list of edges into a loop: arc i runs from the
\* term_end of the edge before edge i to the term_start of edge i, in the
\* units of the edges' segments
JoiningArcs(edges, radius) ==
    [i \in 1..Len(edges) |->
        CornerArc(Scaled(edges[IF i = 1 THEN Len(edges) ELSE i - 1].term_end,
                         PathScale(edges[i])),
                  Scaled(edges[i].term_start, PathScale(edges[i])),
                  radius * PathScale(edges[i]))]

OutlineOf(edges, corner_arcs, upm) ==
    [status |-> "built", edges |-> edges, corner_arcs |-> corner_arcs,
     path |-> build_panel_outline(edges, corner_arcs, upm)]

\* build_panel_outline on the edge, or on the edge and its mate, and the arcs
\* that join them
BuildPanelOutline ==
    /\ corners # NoCorners /\ outline = NoOutline
    /\ outline' = Only({OutlineOf(edges, JoiningArcs(edges, args.corner_radius_left), args.upm) :
                        edges \in {IF mate.count >= 0 THEN <<edge, mate>> ELSE <<edge>>}})
    /\ UNCHANGED <<lay, path, args, edge, mate, segs, mateSegs, warns, cfg, geom, cfg2, geom2,
                   box, corners, val>>

NextJoint ==
    \/ MakeFingerEdge \/ MakeFingerEdgeAngled \/ MakeMatingEdge \/ ToPathSegments
    \/ CornerArcs \/ BuildPanelOutline

SpecJoint == InitJoint /\ [][NextJoint]_vars

\* --------------------------------------------------------------------------
\* SpecDerive: derive, then derive again in the other mode from its result.
\* Lengths have DeriveUpm units per millimetre (0.001 mm); the trapezoids are
\* built on Pythagorean triples, so that every square root is exact.
\* --------------------------------------------------------------------------

DeriveUpm == 10 * 10 * 10

\* (leg_inset, length_outer, leg_length) in steps of TripleStep
DeriveTriples == {<<6, 8, 10>>, <<5, 12, 13>>, <<8, 15, 17>>, <<9, 12, 15>>}

\* the triples are scaled by 1 .. MaxTripleScale
MaxTripleScale == 2

TripleStep == DeriveUpm \div 2

DeriveShorts == {20 * DeriveUpm, 30 * DeriveUpm}

DeriveThicknesses == {2 * DeriveUpm, 3 * DeriveUpm}

DeriveDepth == 20 * DeriveUpm

\* the configuration whose outer trapezoid is the scaled triple tr: the
\* inputs are the outer sizes in OUTER mode and the inner sizes in INNER mode
TripleConfig(tr, s, short_o, t, dim_mode, length_given) ==
    LET adj    == IF dim_mode = "INNER" THEN 2 * t ELSE 0
        long_o == short_o + 2 * tr[1] * s * TripleStep
    IN  CommonConfig(long_o - adj, short_o - adj, length_given,
                     IF length_given THEN tr[2] * s * TripleStep - adj
                     ELSE tr[3] * s * TripleStep,
                     DeriveDepth - adj, t, dim_mode, 0, 0, FALSE, 0, DeriveUpm)

\* validate_config: long > short > 0, length or leg positive, leg > leg_inset,
\* thickness < depth / 2 and thickness < short / 4
ValidDimensions(c) ==
    /\ c.long > c.short /\ c.short > 0 /\ c.depth > 0
    /\ (c.length_given => c.length > 0)
    /\ (~c.length_given => 2 * c.leg > c.long - c.short)
    /\ 2 * c.thickness < c.depth
    /\ 4 * c.thickness < c.short

DeriveConfigs ==
    {c \in {TripleConfig(tr, s, so, t, dm, lg) :
                tr \in DeriveTriples, s \in 1..MaxTripleScale, so \in DeriveShorts,
                t \in DeriveThicknesses, dm \in {"OUTER", "INNER"}, lg \in BOOLEAN} :
        ValidDimensions(c)}

InitDerive ==
    /\ cfg \in DeriveConfigs
    /\ geom = NoGeom /\ cfg2 = NoCfg /\ geom2 = NoGeom
    /\ IdlePath /\ IdleJoint /\ IdleBox /\ IdleValidate /\ IdleLayout

\* geom = derive(config)
Derive ==
    /\ cfg # NoCfg /\ geom = NoGeom
    /\ geom' = derive(cfg)
    /\ UNCHANGED <<lay, corners, outline, val, path, args, edge, mate, segs, mateSegs, warns, cfg, cfg2, geom2, box>>

\* the same configuration in the other mode: the derived leg_length as leg,
\* or one of the derived lengths as length
InverseConfig(c, g, fed) ==
    [c EXCEPT !.length_given = ~c.length_given, !.leg_given = c.length_given,
              !.length = IF fed = "length_outer" THEN g.length_outer
                         ELSE IF fed = "length_inner" THEN g.length_inner ELSE 0,
              !.leg    = IF fed = "leg_length" THEN g.leg_length ELSE 0]

FedValues(c) == IF c.length_given THEN {"leg_length"} ELSE {"length_outer", "length_inner"}

\* geom2 = derive(inverse configuration)
DeriveInverse ==
    /\ geom # NoGeom /\ cfg2 = NoCfg
    /\ \E fed \in FedValues(cfg) :
          /\ cfg2' = [InverseConfig(cfg, geom, fed) EXCEPT !.fed = fed]
          /\ geom2' = derive(InverseConfig(cfg, geom, fed))
    /\ UNCHANGED <<lay, corners, outline, val, path, args, edge, mate, segs, mateSegs, warns, cfg, geom, box>>

NextDerive == Derive \/ DeriveInverse

SpecDerive == InitDerive /\ [][NextDerive]_vars

\* --------------------------------------------------------------------------
\* SpecBox: the box mode run of box/cli.py: derive, resolve_corner_radius,
\* build.  Lengths have UPM units per millimetre.
\* --------------------------------------------------------------------------

\* long 180, short 120, length 380, depth 90, thickness 3, radius 9,
\* burn 0.05, tolerance 0.1
ReferenceConfig ==
    CommonConfig(180 * UPM, 120 * UPM, TRUE, 380 * UPM, 90 * UPM, 3 * UPM, "OUTER",
                 UPM \div 20, UPM \div 10, TRUE, 9 * UPM, UPM)

\* lengths tried besides the reference: 1 .. MaxBoxLengthSteps times 100 mm
MaxBoxLengthSteps == 3

BoxLengths == {380 * UPM} \cup {k * 100 * UPM : k \in 1..MaxBoxLengthSteps}

BoxLongs == {180 * UPM, 150 * UPM}

BoxShorts == {120 * UPM, 90 * UPM}

\* radius None (automatic), 9 mm, 0 mm
BoxRadii == {<<FALSE, 0>>, <<TRUE, 9 * UPM>>, <<TRUE, 0>>}

BoxFits == {<<UPM \div 20, UPM \div 10>>, <<UPM \div 20, 0>>}

BoxConfigs ==
    {c \in {CommonConfig(lo, so, TRUE, L, 90 * UPM, 3 * UPM, "OUTER",
                         f[1], f[2], r[1], r[2], UPM) :
                lo \in BoxLongs, so \in BoxShorts, L \in BoxLengths,
                r \in BoxRadii, f \in BoxFits} :
        ValidDimensions(c)}

InitBox ==
    /\ \E c \in BoxConfigs : box = [status |-> "config", config |-> c]
    /\ IdlePath /\ IdleJoint /\ IdleDerive /\ IdleValidate /\ IdleLayout

\* geom = derive(config.common)
BoxDerive ==
    /\ box.status = "config"
    /\ box' = [status |-> "derived", config |-> box.config, geom |-> derive(box.config)]
    /\ UNCHANGED <<lay, corners, outline, val, path, args, edge, mate, segs, mateSegs, warns, cfg, geom, cfg2, geom2>>

\* radius = resolve_corner_radius(config.common, geom)
BoxResolveRadius ==
    /\ box.status = "derived"
    /\ LET r == resolve_corner_radius(box.config, box.geom)
       IN  box' = [status |-> IF r.status = "ok" THEN "radius" ELSE "ValueError",
                   config |-> box.config, geom |-> box.geom, radius |-> r.radius]
    /\ UNCHANGED <<lay, corners, outline, val, path, args, edge, mate, segs, mateSegs, warns, cfg, geom, cfg2, geom2>>

\* panels = box_panels.build(config, geom, radius)
BoxBuild ==
    /\ box.status = "radius"
    /\ box' = [status |-> "built", config |-> box.config, geom |-> box.geom,
               radius |-> box.radius,
               panels |-> build(box.config, box.geom, box.radius)]
    /\ UNCHANGED <<lay, corners, outline, val, path, args, edge, mate, segs, mateSegs, warns, cfg, geom, cfg2, geom2>>

NextBox == BoxDerive \/ BoxResolveRadius \/ BoxBuild

SpecBox == InitBox /\ [][NextBox]_vars

\* --------------------------------------------------------------------------
\* SpecValidate: a command-line run of box/cli.py or instrument/cli.py up to
\* the corner radius: validate_config, then derive and resolve_corner_radius
\* when no error was reported.  Lengths have UPM units per millimetre.
\* --------------------------------------------------------------------------

\* long, short, length in mm; depth 90, thickness 3, burn 0.05, no radius
PlainConfig(long, short, length, tolerance) ==
    CommonConfig(long * UPM, short * UPM, TRUE, length * UPM, 90 * UPM, 3 * UPM, "OUTER",
                 UPM \div 20, tolerance, FALSE, 0, UPM)

\* configurations around the critical angle of the structural check:
\* leg_inset 50 mm or 74 mm, length 19 .. 31 mm
StructConfigs ==
    {[PlainConfig(40 + 2 * inset, 40, length, tol) EXCEPT !.finger_width = fw] :
        inset \in {50, 74}, length \in {19, 20, 21, 29, 30, 31},
        tol \in {0, UPM \div 10}, fw \in {0, 12 * UPM}}

\* legs tried for long 180, short 120 (leg_inset 30 mm): 25 mm and up to
\* MaxLegSteps steps of 5 mm more
MaxLegSteps == 4

ValidateLegs == {(25 + 5 * k) * UPM : k \in 0..MaxLegSteps}

\* length and leg each given or not
PresenceConfigs ==
    {[PlainConfig(180, 120, 380, UPM \div 10) EXCEPT
          !.dim_mode = dm,
          !.length_given = lg, !.length = IF lg THEN 380 * UPM ELSE 0,
          !.leg_given = gg, !.leg = IF gg THEN leg ELSE 0] :
        dm \in {"OUTER", "INNER"}, lg \in BOOLEAN, gg \in BOOLEAN, leg \in ValidateLegs}

\* corner radius None, 9 mm, just below 45 mm, 45 mm, 60 mm; thickness 1.5,
\* 3 and 3.5 mm; depth 90 and 30 mm; short side 120 and 16 mm
RadiusConfigs ==
    {[PlainConfig(so + 100, so, 380, UPM \div 10) EXCEPT
          !.thickness = t, !.depth = d,
          !.radius_given = r[1], !.corner_radius = r[2]] :
        so \in {120, 16}, t \in {(3 * UPM) \div 2, 3 * UPM, (7 * UPM) \div 2},
        d \in {90 * UPM, 30 * UPM},
        r \in {<<FALSE, 0>>, <<TRUE, 9 * UPM>>, <<TRUE, 45 * UPM - 1>>,
               <<TRUE, 45 * UPM>>, <<TRUE, 60 * UPM>>}}

\* long, short or depth missing
MissingConfigs == {[PlainConfig(180, 120, 380, 0) EXCEPT !.dims_given = FALSE]}

ValidateConfigs == StructConfigs \cup PresenceConfigs \cup RadiusConfigs \cup MissingConfigs

ValidateLids == {"none", "sliding"}

\* no scale length, or a scale length of 380 mm; the default kerf width
ValidateInstruments ==
    {InstrumentSettings(FALSE, 0, DEFAULT_KERF_WIDTH_MM * UPM),
     InstrumentSettings(TRUE, 380 * UPM, DEFAULT_KERF_WIDTH_MM * UPM)}

NoInstrument == InstrumentSettings(FALSE, 0, 0)

Run(status, mode, config, lid, inst, errors, derived, g, radius) ==
    [status |-> status, mode |-> mode, config |-> config, lid |-> lid, inst |-> inst,
     errors |-> errors, derived |-> derived, geom |-> g, radius |-> radius]

\* config = build_config(args)
InitValidate ==
    /\ \/ \E c \in ValidateConfigs, lid \in ValidateLids :
               val = Run("config", "box", c, lid, NoInstrument, {}, FALSE, NoGeom, 0)
       \/ \E c \in ValidateConfigs, inst \in ValidateInstruments :
               val = Run("config", "instrument", c, "none", inst, {}, FALSE, NoGeom, 0)
    /\ IdlePath /\ IdleJoint /\ IdleDerive /\ IdleBox /\ IdleLayout

\* errors = validate_config(config); sys.exit(1) when there are errors
Validated(r, v) ==
    Run(IF v.errors = {} THEN "validated" ELSE "exit", r.mode, r.config, r.lid, r.inst,
        v.errors, v.derived, v.geom, 0)

ValidateBoxConfig ==
    /\ val.status = "config" /\ val.mode = "box"
    /\ \E rounded_down \in BOOLEAN :
           val' = Validated(val, box_validate_config(val.config, val.lid, rounded_down))
    /\ UNCHANGED <<lay, path, args, edge, mate, segs, mateSegs, warns, cfg, geom, cfg2, geom2,
                   box, corners, outline>>

ValidateInstrumentConfig ==
    /\ val.status = "config" /\ val.mode = "instrument"
    /\ \E rounded_down \in BOOLEAN :
           val' = Validated(val, instrument_validate_config(val.config, val.inst,
                                                            rounded_down))
    /\ UNCHANGED <<lay, path, args, edge, mate, segs, mateSegs, warns, cfg, geom, cfg2, geom2,
                   box, corners, outline>>

\* geom = derive(config.common) of run(); a ValueError ends the run with
\* ERR_RUNTIME
RunDerive ==
    /\ val.status = "validated"
    /\ LET g == derive(val.config)
       IN  val' = [val EXCEPT !.status = IF g.status = "ok" THEN "derived" ELSE "ERR_RUNTIME",
                              !.geom = g]
    /\ UNCHANGED <<lay, path, args, edge, mate, segs, mateSegs, warns, cfg, geom, cfg2, geom2,
                   box, corners, outline>>

\* radius = resolve_corner_radius(config.common, geom) of run()
RunResolveRadius ==
    /\ val.status = "derived"
    /\ LET r == resolve_corner_radius(val.config, val.geom)
       IN  val' = [val EXCEPT !.status = IF r.status = "ok" THEN "radius" ELSE "ERR_RUNTIME",
                              !.radius = r.radius]
    /\ UNCHANGED <<lay, path, args, edge, mate, segs, mateSegs, warns, cfg, geom, cfg2, geom2,
                   box, corners, outline>>

\* panels = box_panels.build(config, geom, radius) of run() in box mode; with
\* lid "none" make_lid adds no panel
RunBuild ==
    /\ val.status = "radius" /\ val.mode = "box" /\ val.lid = "none"
    /\ val' = [panels |-> build(val.config, val.geom, val.radius)]
                  @@ [val EXCEPT !.status = "built"]
    /\ UNCHANGED <<lay, path, args, edge, mate, segs, mateSegs, warns, cfg, geom, cfg2, geom2,
                   box, corners, outline>>

NextValidate ==
    \/ ValidateBoxConfig \/ ValidateInstrumentConfig \/ RunDerive \/ RunResolveRadius
    \/ RunBuild

SpecValidate == InitValidate /\ [][NextValidate]_vars

\* --------------------------------------------------------------------------
\* SpecLayout: one call of layout_panels, one loop iteration per step
\* --------------------------------------------------------------------------

\* input lists of 1 .. MaxPanels panels
MaxPanels == 3

\* type, width, height: a base and walls that fit a row, a wall that fits
\* the sheet only without the margin, a wall wider than the sheet, a
\* soundboard nearly as large as the sheet, a lid, a test strip
LayoutShapes ==
    {<<"BASE", 50, 30>>, <<"WALL_LONG", 30, 50>>, <<"WALL_SHORT", 95, 20>>,
     <<"WALL_LEG_LEFT", 120, 20>>, <<"SOUNDBOARD", 95, 95>>, <<"LID", 20, 20>>,
     <<"TEST_STRIP", 20, 40>>}

\* sheet_width, sheet_height
LayoutSheets == {<<100, 100>>, <<100, 60>>}

\* the outline of a w x h panel: its bounding rectangle
RectOutline(w, h) ==
    <<Line(Point(0, 0), Point(w, 0)), Line(Point(w, 0), Point(w, h)),
      Line(Point(w, h), Point(0, h)), Line(Point(0, h), Point(0, 0))>>

PanelsOf(shapes) ==
    [i \in 1..Len(shapes) |->
        Panel(i, shapes[i][1], shapes[i][2], shapes[i][3],
              RectOutline(shapes[i][2], shapes[i][3]))]

LayoutInputs == UNION {{PanelsOf(f) : f \in [1..n -> LayoutShapes]} : n \in 1..MaxPanels}

LayoutCall(status, panels, sheet_width, sheet_height, test_strips, other_sorted, i, loop) ==
    [status |-> status, panels |-> panels,
     sheet_width |-> sheet_width, sheet_height |-> sheet_height,
     test_strips |-> test_strips, other_sorted |-> other_sorted, i |-> i, loop |-> loop]

\* layout_panels(panels, sheet_width, sheet_height) is called
InitLayout ==
    /\ \E ps \in LayoutInputs, sheet \in LayoutSheets :
           lay = LayoutCall("called", ps, sheet[1], sheet[2], <<>>, <<>>, 1,
                            LoopState(<<>>, 0, 0, 0, 0))
    /\ IdlePath /\ IdleJoint /\ IdleDerive /\ IdleBox /\ IdleValidate

LayoutStep(next) ==
    /\ lay' = next
    /\ UNCHANGED <<path, args, edge, mate, segs, mateSegs, warns, cfg, geom, cfg2, geom2,
                   box, corners, outline, val>>

\* lines 29-43: the test strips are set aside, the others sorted
StartPlacing ==
    /\ lay.status = "called"
    /\ LayoutStep([lay EXCEPT !.status = "placing",
                              !.test_strips = SelectSeq(lay.panels, IsTestStrip),
                              !.other_sorted = SortedByLongest(SelectSeq(lay.panels, IsOther)),
                              !.i = 1,
                              !.loop = LoopState(<<>>, 0, PANEL_GAP_MM, PANEL_GAP_MM, 0)])

\* the loop body for a panel wider than the sheet
PlaceOversized ==
    /\ lay.status = "placing" /\ lay.i <= Len(lay.other_sorted)
    /\ lay.other_sorted[lay.i].width > lay.sheet_width
    /\ LayoutStep([lay EXCEPT !.i = lay.i + 1,
                              !.loop = PlacedOversized(lay.loop, lay.other_sorted[lay.i],
                                                       lay.sheet_height)])

\* the loop body when try_place succeeds in the current row
PlaceInRow ==
    /\ lay.status = "placing" /\ lay.i <= Len(lay.other_sorted)
    /\ lay.other_sorted[lay.i].width <= lay.sheet_width
    /\ try_place(lay.other_sorted[lay.i], lay.loop.x, lay.sheet_width).placed
    /\ LayoutStep([lay EXCEPT !.i = lay.i + 1,
                              !.loop = PlacedInRow(lay.loop,
                                           try_place(lay.other_sorted[lay.i], lay.loop.x,
                                                     lay.sheet_width).panel)])

\* the loop body when it does not: new row, possibly new sheet
PlaceInNewRow ==
    /\ lay.status = "placing" /\ lay.i <= Len(lay.other_sorted)
    /\ lay.other_sorted[lay.i].width <= lay.sheet_width
    /\ ~try_place(lay.other_sorted[lay.i], lay.loop.x, lay.sheet_width).placed
    /\ LayoutStep([lay EXCEPT !.i = lay.i + 1,
                              !.loop = PlacedInNewRow(lay.loop, lay.other_sorted[lay.i],
                                                      lay.sheet_width, lay.sheet_height)])

\* lines 116-129: last_sheet, ts_y and ts_x
StartTestStrips ==
    /\ lay.status = "placing" /\ lay.i > Len(lay.other_sorted)
    /\ LayoutStep([lay EXCEPT !.status = "strips", !.i = 1,
                              !.loop = LoopState(lay.loop.result, LastSheet(lay.loop.result),
                                                 PANEL_GAP_MM,
                                                 TestStripY(lay.loop.result,
                                                            LastSheet(lay.loop.result)),
                                                 0)])

PlaceTestStrip ==
    /\ lay.status = "strips" /\ lay.i <= Len(lay.test_strips)
    /\ LayoutStep([lay EXCEPT !.i = lay.i + 1,
                              !.loop = PlacedTestStrip(lay.loop, lay.test_strips[lay.i],
                                                       lay.sheet_height)])

\* return result
ReturnLayout ==
    /\ lay.status = "strips" /\ lay.i > Len(lay.test_strips)
    /\ LayoutStep([lay EXCEPT !.status = "returned"])

NextLayout ==
    \/ StartPlacing \/ PlaceOversized \/ PlaceInRow \/ PlaceInNewRow
    \/ StartTestStrips \/ PlaceTestStrip \/ ReturnLayout

SpecLayout == InitLayout /\ [][NextLayout]_vars

\* --------------------------------------------------------------------------
\* Properties of ClosedPath construction (SpecPath)
\* --------------------------------------------------------------------------

PathConstructed == path.status \in {"ok", "ValueError"}

\* the closing gap: end of the last segment minus start of the first
ClosingGap ==
    LET ss == path.segments
    IN  Point(_segment_end(ss[Len(ss)]).x - _segment_start(ss[1]).x,
              _segment_end(ss[Len(ss)]).y - _segment_start(ss[1]).y)

\* the two points are more than FLOAT_TOLERANCE apart (Euclidean distance)
ClosingGapApart ==
    ClosingGap.x * ClosingGap.x + ClosingGap.y * ClosingGap.y
        > TolUnits(path.upm) * TolUnits(path.upm)

\* C1 as stated: construction raises exactly when the tuple is empty or the
\* end of the last segment and the start of the first are more than 1e-6
\* apart, and succeeds only when they are within 1e-6 of each other.
C1_RaisesWhenApart ==
    PathConstructed =>
        (path.status = "ValueError" <=> (Len(path.segments) = 0 \/ ClosingGapApart))

\* C1 amended: construction raises exactly when the tuple is empty or the two
\* points differ by more than 1e-6 in x or in y; it succeeds exactly when
\* both coordinate differences are at most 1e-6.
C1_RaisesWhenCoordinateApart ==
    PathConstructed =>
        (path.status = "ValueError" <=>
            (\/ Len(path.segments) = 0
             \/ Abs(ClosingGap.x) > TolUnits(path.upm)
             \/ Abs(ClosingGap.y) > TolUnits(path.upm)))

\* a path accepted although its closing points are more than 1e-6 apart
C1_Witness ==
    /\ path.status = "ok"
    /\ ClosingGapApart

\* C2 as stated: in a constructed ClosedPath every segment's end equals the
\* next segment's start (cyclically) within 1e-6; a tuple with a gap at an
\* interior joint is rejected by the constructor.
C2_EveryJointChecked ==
    path.status = "ok" =>
        \A i \in 1..Len(path.segments) :
            LET j == IF i = Len(path.segments) THEN 1 ELSE i + 1
                a == _segment_end(path.segments[i])
                b == _segment_start(path.segments[j])
            IN  nearly_equal(a.x, b.x, path.upm) /\ nearly_equal(a.y, b.y, path.upm)

\* --------------------------------------------------------------------------
\* Properties of finger edges and their rendering (SpecJoint)
\* --------------------------------------------------------------------------

\* the arguments make_finger_edge itself received
EffectiveArgs == IF args.angled THEN AngledArgs(args, args.leg_angle) ELSE args

\* distance between term_start and term_end of an edge
TermDistance(e) ==
    Sqrt((e.term_end.x - e.term_start.x) * (e.term_end.x - e.term_start.x)
         + (e.term_end.y - e.term_start.y) * (e.term_end.y - e.term_start.y))

C4_CountTimesWidthIsAvailable ==
    edge.count > 0 =>
        Abs(edge.count * edge.finger_width.num - TermDistance(edge) * edge.finger_width.den)
            <= TolUnits(args.upm) * edge.finger_width.den

\* an edge with several features whose joint zone is shorter than the edge
C4_Witness ==
    /\ edge.count >= MIN_FINGER_COUNT
    /\ edge.term_start # edge.start
    /\ edge.finger_width.num > 0

\* position of point p along the direction of edge e
AlongEdge(e, p) ==
    LET d == Dir(e.end.x - e.start.x, e.end.y - e.start.y)
    IN  RoundDiv(p.x * d.x + p.y * d.y, d.len)

SegmentPoints(ss) == {ss[i].start : i \in 1..Len(ss)} \cup {ss[i].end : i \in 1..Len(ss)}

\* C5 as stated: for an edge with count > 0, no point of the emitted segments
\* lies before term_start or beyond term_end along the edge direction.
C5_NoPointBeyondTermination ==
    (edge.count > 0 /\ segs # <<>>) =>
        \A p \in SegmentPoints(segs) :
            /\ AlongEdge(edge, Scaled(edge.term_start, PathScale(edge))) <= AlongEdge(edge, p)
            /\ AlongEdge(edge, p) <= AlongEdge(edge, Scaled(edge.term_end, PathScale(edge)))

\* index of the first and of the last segment of feature i (0-based): an
\* even feature has three segments, an odd feature one
FeatureFirst(i) == 2 * i + 1 + (i % 2)

FeatureLast(i) == IF i % 2 = 0 THEN FeatureFirst(i) + 2 ELSE FeatureFirst(i)

FeatureStart(e, ss, i) == AlongEdge(e, ss[FeatureFirst(i)].start)

FeatureEnd(e, ss, i) == AlongEdge(e, ss[FeatureLast(i)].end)

\* feature i carries material: a tab of a finger edge, a land of a slotted edge
FeatureIsTab(e, i) == (i % 2 = 0) = ~e.is_slotted

\* 1e-4 mm in units, for values that have upm units per millimetre
AlignmentTol(upm) == upm \div (100 * 100)

\* C6 as stated: on the two sides of one joint the features correspond index
\* by index: start and end of feature i coincide along the edge within 1e-4,
\* and feature i is a tab on one side and a slot on the other.
C6_FeaturesCoincide ==
    (edge.count > 0 /\ mate.count = edge.count /\ segs # <<>> /\ mateSegs # <<>>) =>
        \A i \in 0..(edge.count - 1) :
            /\ Abs(FeatureStart(edge, segs, i) - FeatureStart(mate, mateSegs, i))
                   <= AlignmentTol(args.upm * PathScale(edge))
            /\ Abs(FeatureEnd(edge, segs, i) - FeatureEnd(mate, mateSegs, i))
                   <= AlignmentTol(args.upm * PathScale(edge))
            /\ FeatureIsTab(edge, i) # FeatureIsTab(mate, i)

\* drawn width of feature i
DrawnWidth(e, ss, i) == FeatureEnd(e, ss, i) - FeatureStart(e, ss, i)

\* of the two sides of the joint, the one with the tabs and the one with the slots
TabSide == IF edge.is_slotted THEN mate ELSE edge

TabSideSegs == IF edge.is_slotted THEN mateSegs ELSE segs

SlotSide == IF edge.is_slotted THEN edge ELSE mate

SlotSideSegs == IF edge.is_slotted THEN segs ELSE mateSegs

\* C8: the drawn tab is finger_width + 2 * burn wide, the drawn slot
\* finger_width - 2 * burn + 2 * tolerance, so slot minus tab is
\* -4 * burn + 2 * tolerance: -0.2 mm for burn 0.05 and tolerance 0, and 0 for
\* burn 0.05 and tolerance 0.1.  (Widths in units / PathScale.)
C8_DrawnTabAndSlotWidth ==
    (edge.count > 0 /\ mate.count > 0 /\ segs # <<>> /\ mateSegs # <<>>) =>
        LET k    == PathScale(edge)
            fw   == edge.finger_width.num
            tab  == DrawnWidth(TabSide, TabSideSegs, 0)
            slot == DrawnWidth(SlotSide, SlotSideSegs, 0)
        IN  /\ tab = fw + 2 * edge.burn * k
            /\ slot = fw - 2 * edge.burn * k + 2 * edge.tolerance * k
            /\ slot - tab = (2 * edge.tolerance - 4 * edge.burn) * k
            /\ (edge.burn = UPM \div 20 /\ edge.tolerance = 0)
                   => slot - tab = -((UPM \div 5) * k)
            /\ (edge.burn = UPM \div 20 /\ edge.tolerance = UPM \div 10)
                   => slot - tab = 0

\* both sides rendered with burn 0.05 and tolerance 0.1
C8_Witness ==
    /\ edge.count > 0 /\ mate.count > 0 /\ segs # <<>> /\ mateSegs # <<>>
    /\ edge.burn = UPM \div 20 /\ edge.tolerance = UPM \div 10

\* C12: every ClosedPath build_panel_outline returns is watertight: the end of
\* each segment is the start of the next one within 1e-6, cyclically, for
\* jointed edges and for plain (count = 0) edges.
C12_OutlineWatertight ==
    outline.status = "built" /\ outline.path.status = "ok" =>
        \A i \in 1..Len(outline.path.segments) :
            SamePoint(_segment_end(outline.path.segments[i]),
                      _segment_start(outline.path.segments[
                          (i % Len(outline.path.segments)) + 1]),
                      outline.path.upm)

\* C13: make_finger_edge returns a plain edge (count 0, finger_width 0) with
\* one warning exactly when the distance between term_start and term_end is
\* below mating_thickness + 2 * burn; at or above it the count is never 0.
C13_PlainExactlyWhenTooShort ==
    edge.count >= 0 =>
        /\ edge.count = 0 <=> TermDistance(edge) < edge.depth + 2 * edge.burn
        /\ edge.count = 0 => (edge.finger_width.num = 0 /\ warns = 1)

\* a plain edge: the corner fillets leave less than one feature
C13_Witness ==
    /\ edge.count = 0 /\ warns = 1
    /\ edge.term_start # edge.start
    /\ TermDistance(edge) > 0

\* floor(available_length / (mating_thickness + 2 * burn)) of a returned edge
FloorCount(e) == TermDistance(e) \div (e.depth + 2 * e.burn)

C17_TargetIsNearestOdd ==
    (/\ edge.count > 0 /\ warns = 0
     /\ TermDistance(edge) >= MIN_FINGER_COUNT * AUTO_FINGER_WIDTH_FACTOR * args.thickness) =>
        \A k \in 0..edge.count :
            Abs((2 * k + 1) * AUTO_FINGER_WIDTH_FACTOR * args.thickness - TermDistance(edge))
                >= Abs(edge.count * AUTO_FINGER_WIDTH_FACTOR * args.thickness
                       - TermDistance(edge))

\* C19: term_start of the edge is the arc end point corner_arc_segments
\* returns for the corner at start, term_end is the arc start point it returns
\* for the corner at end, when both are given the radius and angle of the
\* edge; every arc has large_arc = false and clockwise = true.
C19_ArcsMeetTermination ==
    corners.status = "built" =>
        /\ corners.at_start.arc_end = edge.term_start
        /\ corners.at_end.arc_start = edge.term_end
        /\ \A c \in {corners.at_start, corners.at_end} :
               ~c.arc.large_arc /\ c.arc.clockwise

\* a jointed edge between two fillets at corners that are not right angles
C19_Witness ==
    /\ corners.status = "built" /\ edge.count > 0
    /\ args.corner_radius_left > 0
    /\ args.internal_angle_left.sign # 0
    /\ corners.at_start.arc_end # args.start
    /\ corners.at_end.arc_start # args.end

\* offset of point p from the baseline through ts with direction d, towards
\* (dy, -dx), in the units of the points
OutOffset(d, ts, p) == RoundDiv((p.x - ts.x) * d.y - (p.y - ts.y) * d.x, d.len)

\* position of point p along direction d
AlongDir(d, p) == RoundDiv(p.x * d.x + p.y * d.y, d.len)

\* segments j, j+1, j+2 go out from the baseline by out, across parallel to
\* the baseline, and back to the baseline
OutAcrossBack(d, ts, ss, j, out) ==
    /\ OutOffset(d, ts, ss[j].start) = 0
    /\ OutOffset(d, ts, ss[j].end) = out
    /\ AlongDir(d, ss[j].end) = AlongDir(d, ss[j].start)
    /\ OutOffset(d, ts, ss[j + 1].end) = OutOffset(d, ts, ss[j + 1].start)
    /\ OutOffset(d, ts, ss[j + 2].end) = 0
    /\ AlongDir(d, ss[j + 2].end) = AlongDir(d, ss[j + 2].start)

AlongBaseline(d, ts, ss, j) ==
    OutOffset(d, ts, ss[j].start) = 0 /\ OutOffset(d, ts, ss[j].end) = 0

C27_TerminationsInOrder ==
    edge.count > 0 => AlongEdge(edge, edge.term_start) < AlongEdge(edge, edge.term_end)

\* the arguments with the corrections of an angled joint written out:
\* mating thickness / cos|a| and tolerance + mating thickness * tan|a|
CorrectedArgs(a) ==
    [a EXCEPT !.mating_thickness =
                  RoundDiv(a.mating_thickness * Hyp(a.leg_angle), a.leg_angle.adj),
              !.tolerance = a.tolerance
                  + RoundDiv(a.mating_thickness * Abs(a.leg_angle.opp), a.leg_angle.adj)]

MirroredArgs(a) == [a EXCEPT !.leg_angle = LegAngle(-a.leg_angle.opp, a.leg_angle.adj)]

\* C21: make_finger_edge_angled returns the edge make_finger_edge returns for
\* mating thickness / cos|a| and tolerance + mating thickness * tan|a|; for
\* a = 0 that is the uncorrected edge, and the edge for -a is the edge for a.
C21_AngledIsCorrectedCall ==
    (args.angled /\ edge.count >= 0) =>
        /\ edge = make_finger_edge(CorrectedArgs(args))
        /\ args.leg_angle.opp = 0 => edge = make_finger_edge(args)
        /\ edge = make_finger_edge_angled(MirroredArgs(args), MirroredArgs(args).leg_angle)

\* an angled call with a negative leg angle returned an edge with fingers,
\* its depth and tolerance corrected
C21_Witness ==
    /\ args.angled /\ args.leg_angle.opp < 0 /\ edge.count > 0
    /\ edge.depth > args.mating_thickness
    /\ edge.tolerance > args.tolerance


\* --------------------------------------------------------------------------

\* 1e-3 mm in units, for values that have upm units per millimetre
RoundTripTol(upm) == upm \div (10 * 10 * 10)

RoundTripDone == geom2 # NoGeom

\* C9 as stated: deriving from a length and again from the resulting
\* leg_length recovers length_outer equal to the original length within 1e-3;
\* deriving from a leg and again from the derived length recovers the leg.
C9_RoundTrip ==
    RoundTripDone =>
        /\ cfg.length_given
               => Abs(geom2.length_outer - cfg.length) <= RoundTripTol(cfg.upm)
        /\ (~cfg.length_given /\ cfg2.fed = "length_outer")
               => Abs(geom2.leg_length - cfg.leg) <= RoundTripTol(cfg.upm)

\* C9 amended: in OUTER mode the round trip recovers the original length as
\* length_outer, and the original leg when length_outer is fed back; in
\* INNER mode it recovers the original length as length_inner (length_outer
\* is the original plus 2 * thickness), and the original leg when
\* length_inner is fed back; all within 1e-3.
C9_RoundTripByDimMode ==
    RoundTripDone =>
        /\ (cfg.length_given /\ cfg.dim_mode = "OUTER")
               => Abs(geom2.length_outer - cfg.length) <= RoundTripTol(cfg.upm)
        /\ (cfg.length_given /\ cfg.dim_mode = "INNER")
               => /\ Abs(geom2.length_inner - cfg.length) <= RoundTripTol(cfg.upm)
                  /\ Abs(geom2.length_outer - (cfg.length + 2 * cfg.thickness))
                         <= RoundTripTol(cfg.upm)
        /\ (~cfg.length_given /\ cfg.dim_mode = "OUTER" /\ cfg2.fed = "length_outer")
               => Abs(geom2.leg_length - cfg.leg) <= RoundTripTol(cfg.upm)
        /\ (~cfg.length_given /\ cfg.dim_mode = "INNER" /\ cfg2.fed = "length_inner")
               => Abs(geom2.leg_length - cfg.leg) <= RoundTripTol(cfg.upm)

\* a round trip in INNER mode that started from a length
C9_Witness ==
    /\ RoundTripDone
    /\ cfg.length_given /\ cfg.dim_mode = "INNER"
    /\ geom2.length_inner = cfg.length

\* the statement of C18 for one derive call: configuration c, result g
InnerExpanded(c, g) ==
    /\ g.long_outer = c.long + 2 * c.thickness
    /\ g.short_outer = c.short + 2 * c.thickness
    /\ g.depth_outer = c.depth + 2 * c.thickness
    /\ g.long_inner = c.long /\ g.short_inner = c.short /\ g.depth_inner = c.depth
    /\ 2 * g.leg_inset = g.long_outer - g.short_outer
    /\ c.length_given =>
           /\ g.length_outer = c.length + 2 * c.thickness
           /\ g.length_inner = c.length
           /\ Abs(g.leg_length * g.leg_length
                  - (g.length_outer * g.length_outer + g.leg_inset * g.leg_inset))
                  <= 2 * g.leg_length
    /\ ~c.length_given => g.leg_length = c.leg

\* C18: in inner dimension mode derive adds 2 * thickness to long, short,
\* depth and (mode A) length before anything else and leaves a supplied leg
\* as it is; long_inner, short_inner, depth_inner and (mode A) length_inner
\* are the supplied values.
C18_InnerModeExpansion ==
    /\ (geom # NoGeom /\ cfg.dim_mode = "INNER") => InnerExpanded(cfg, geom)
    /\ (geom2 # NoGeom /\ cfg2.dim_mode = "INNER") => InnerExpanded(cfg2, geom2)

\* inner mode, once with a length and once with a leg
C18_Witness ==
    /\ geom # NoGeom /\ geom2 # NoGeom
    /\ cfg.dim_mode = "INNER" /\ ~cfg.length_given /\ cfg2.length_given
    /\ geom.leg_length = cfg.leg
    /\ geom2.length_outer = cfg2.length + 2 * cfg2.thickness

\* --------------------------------------------------------------------------
\* Properties of the box panel set (SpecBox)
\* --------------------------------------------------------------------------

\* distance from the start corner to term_start, from the end corner to term_end
TermStartDist(e) ==
    Sqrt((e.term_start.x - e.start.x) * (e.term_start.x - e.start.x)
         + (e.term_start.y - e.start.y) * (e.term_start.y - e.start.y))

TermEndDist(e) ==
    Sqrt((e.term_end.x - e.end.x) * (e.term_end.x - e.end.x)
         + (e.term_end.y - e.end.y) * (e.term_end.y - e.end.y))

\* C7 as stated: the bottom edge of every wall has term_start and term_end at
\* the tangent distances of the BASE corners of the joint it mates with (the
\* trapezoid corner angles), not at those of its own 90-degree corners.
C7_WallsFollowBaseTermination ==
    box.status = "built" =>
        LET lea == tangent_dist(box.radius, box.geom.long_end_angle)
            sea == tangent_dist(box.radius, box.geom.short_end_angle)
            wl  == box.panels.WALL_LONG.e_bottom
            ws  == box.panels.WALL_SHORT.e_bottom
            wg  == box.panels.WALL_LEG_LEFT.e_bottom
        IN  /\ TermStartDist(wl) = sea /\ TermEndDist(wl) = sea
            /\ TermStartDist(ws) = lea /\ TermEndDist(ws) = lea
            /\ {TermStartDist(wg), TermEndDist(wg)} = {sea, lea}

\* C10: for the reference configuration the BASE finger edges have count 17
\* (long), 11 (short) and 39 (each leg), and leg_inset is 30 mm.
C10_ReferenceCounts ==
    (box.status = "built" /\ box.config = ReferenceConfig) =>
        /\ box.panels.BASE.e_long.count = 17
        /\ box.panels.BASE.e_short.count = 11
        /\ box.panels.BASE.e_leg_r.count = 39
        /\ box.panels.BASE.e_leg_l.count = 39
        /\ box.geom.leg_inset = 30 * box.config.upm

\* the reference configuration built with the radius 9 mm
C10_Witness ==
    /\ box.status = "built" /\ box.config = ReferenceConfig
    /\ box.radius = 9 * UPM
    /\ box.panels.BASE.e_long.count > 0

\* --------------------------------------------------------------------------
\* Properties of validate_config and of the run up to the corner radius
\* (SpecValidate)
\* --------------------------------------------------------------------------

\* validate_config has returned after calling derive, and derive returned a
\* geometry
GeometryValidated == val.status # "config" /\ val.derived /\ val.geom.status = "ok"

\* C11: the structural check passes exactly when
\* finger_width - tolerance - thickness * tan(leg_angle) >= thickness / 2:
\* STRUCT_TAB_TOO_THIN is reported when the left side is smaller and is not
\* reported at the critical angle, where the two sides are equal.
C11_StructCheckExact ==
    (GeometryValidated /\ val.geom.leg_angle.adj > 0) =>
        ("VALIDATION_STRUCT_TAB_TOO_THIN" \in val.errors
            <=> StructMargin(val.config, StructFingerWidth(val.config),
                             val.geom.leg_angle) < 0)

\* leg_inset of a configuration: half the difference of the outer parallel
\* sides
ConfigLegInset(c) == LegInset(OuterSize(c, c.long), OuterSize(c, c.short))

\* C15: in mode B derive returns a geometry only when leg > leg_inset, and
\* the geometry it returns has length_outer > 0.
C15_ModeBRejectsShortLeg ==
    (val.derived /\ ~val.config.length_given /\ val.config.leg_given
        /\ val.geom.status = "ok") =>
        /\ val.config.leg > ConfigLegInset(val.config)
        /\ val.geom.length_outer > 0

\* C16: validate_config reports an error and does not call derive unless
\* exactly one of length and leg is set.
C16_ExactlyOneOfLengthLeg ==
    (val.status # "config" /\ val.config.length_given = val.config.leg_given) =>
        (val.errors # {} /\ ~val.derived)

\* n = round(x / upm): the integer nearest to x / upm, the even one of two
\* equally near
IsRounded(n, x, upm) ==
    \/ 2 * (x - n * upm) < upm /\ 2 * (n * upm - x) < upm
    \/ n % 2 = 0 /\ (2 * (x - n * upm) = upm \/ 2 * (n * upm - x) = upm)

\* r is the radius resolve_corner_radius tries for c
IsCandidateRadius(r, c) ==
    IF c.radius_given THEN r = c.corner_radius
    ELSE \E n \in 0..(4 * MIN_CORNER_RADIUS_MM) :
             /\ IsRounded(n, AUTO_CORNER_RADIUS_FACTOR * c.thickness, c.upm)
             /\ r = (IF n < MIN_CORNER_RADIUS_MM THEN MIN_CORNER_RADIUS_MM ELSE n) * c.upm

RadiusFits(r, g) == 2 * r < g.short_outer /\ 2 * r < g.depth_outer

\* C20: resolve_corner_radius tries the configured radius, or
\* max(5, round(3 * thickness)) when none is configured, returns it when it
\* is less than half the short side and less than half the depth, and raises
\* ValueError otherwise.
C20_RadiusStrictlyFits ==
    /\ val.status = "radius" =>
           IsCandidateRadius(val.radius, val.config) /\ RadiusFits(val.radius, val.geom)
    /\ (val.status = "ERR_RUNTIME" /\ val.geom.status = "ok") =>
           IsCandidateRadius(val.radius, val.config) /\ ~RadiusFits(val.radius, val.geom)

\* a radius of exactly half the depth is rejected
C20_Witness ==
    /\ val.status = "ERR_RUNTIME" /\ val.geom.status = "ok"
    /\ 2 * val.radius = val.geom.depth_outer
    /\ 2 * val.radius < val.geom.short_outer

\* the configuration without its finger_width override
WithoutOverride(c) == [c EXCEPT !.finger_width = 0]

\* C23: the finger edges built for a configuration are those built for the
\* same configuration without the finger_width override, while the structural
\* check of validate_config is decided by the override when one is given.
C23_OverrideOnlyInStructCheck ==
    /\ val.status = "built" =>
           val.panels = build(WithoutOverride(val.config), val.geom, val.radius)
    /\ (GeometryValidated /\ val.geom.leg_angle.adj > 0 /\ val.config.finger_width # 0) =>
           (("VALIDATION_STRUCT_TAB_TOO_THIN" \in val.errors)
               <=> OVERCUT_MIN_STRUCT_RATIO_INV
                       * ((val.config.finger_width - val.config.tolerance)
                              * val.geom.leg_angle.adj
                          - val.config.thickness * val.geom.leg_angle.opp)
                   < val.config.thickness * val.geom.leg_angle.adj)

\* panels were built for a configuration that passes the structural check
\* only with its override
C23_Witness ==
    /\ val.status = "built" /\ val.config.finger_width # 0
    /\ "VALIDATION_STRUCT_TAB_TOO_THIN"
           \in box_validate_config(WithoutOverride(val.config), val.lid, FALSE).errors
    /\ val.panels.BASE.e_long.count > 0

\* --------------------------------------------------------------------------
\* Properties of layout_panels (SpecLayout)
\* --------------------------------------------------------------------------

\* the triples placed so far; the result once the call has returned
Placed == IF lay.status \in {"placing", "strips", "returned"} THEN lay.loop.result ELSE <<>>

Returned == lay.status = "returned"

\* the input panel a placed panel was made from
InputOf(r) == lay.panels[r.panel.id]

\* r holds its input panel turned by 90 degrees: width and height swapped,
\* every point (x, y) of the outline moved to (y, width - x)
IsQuarterTurn(r) ==
    /\ r.panel.type = InputOf(r).type
    /\ r.panel.width = InputOf(r).height /\ r.panel.height = InputOf(r).width
    /\ Len(r.panel.outline) = Len(InputOf(r).outline)
    /\ \A k \in 1..Len(r.panel.outline) :
           /\ r.panel.outline[k].start.x = InputOf(r).outline[k].start.y
           /\ r.panel.outline[k].start.y = InputOf(r).width - InputOf(r).outline[k].start.x
           /\ r.panel.outline[k].end.x = InputOf(r).outline[k].end.y
           /\ r.panel.outline[k].end.y = InputOf(r).width - InputOf(r).outline[k].end.x

\* C24: a panel of type BASE or SOUNDBOARD is in the result with the outline,
\* width and height it had on input.
C24_FixedGrainNeverRotated ==
    \A k \in 1..Len(Placed) :
        Placed[k].panel.type \in {"BASE", "SOUNDBOARD"} =>
            /\ Placed[k].panel.outline = InputOf(Placed[k]).outline
            /\ Placed[k].panel.width = InputOf(Placed[k]).width
            /\ Placed[k].panel.height = InputOf(Placed[k]).height

\* a BASE or SOUNDBOARD was moved to a new row of the same sheet although it
\* would have fitted the row before when turned
C24_Witness ==
    /\ Returned
    /\ \E k \in 2..Len(Placed) :
           /\ Placed[k].panel.type \in {"BASE", "SOUNDBOARD"}
           /\ Placed[k].sheet = Placed[k - 1].sheet
           /\ Placed[k].origin.y > Placed[k - 1].origin.y
           /\ Placed[k - 1].origin.x + Placed[k - 1].panel.width + PANEL_GAP_MM
                  + Placed[k].panel.height <= lay.sheet_width

\* C25: the result holds every input panel exactly once, unchanged or turned
\* by 90 degrees with width and height swapped.
C25_EachPanelOnce ==
    Returned =>
        /\ Len(Placed) = Len(lay.panels)
        /\ \A i \in 1..Len(lay.panels) :
               Cardinality({k \in 1..Len(Placed) : Placed[k].panel.id = i}) = 1
        /\ \A k \in 1..Len(Placed) :
               Placed[k].panel = InputOf(Placed[k]) \/ IsQuarterTurn(Placed[k])

\* a result with a turned panel and an unchanged one
C25_Witness ==
    /\ Returned
    /\ \E k \in 1..Len(Placed) :
           IsQuarterTurn(Placed[k]) /\ Placed[k].panel.width # InputOf(Placed[k]).width
    /\ \E k \in 1..Len(Placed) : Placed[k].panel = InputOf(Placed[k])

\* C26: every TEST_STRIP comes after all other panels in the result, on a
\* sheet whose index is at least that of every other panel.
C26_TestStripsLast ==
    Returned =>
        \A k \in 1..Len(Placed), j \in 1..Len(Placed) :
            (Placed[k].panel.type = "TEST_STRIP" /\ Placed[j].panel.type # "TEST_STRIP") =>
                (j < k /\ Placed[k].sheet >= Placed[j].sheet)

\* a test strip given first, placed on the second sheet the other panels
\* needed
C26_Witness ==
    /\ Returned /\ lay.panels[1].type = "TEST_STRIP"
    /\ \E k \in 1..Len(Placed), j \in 1..Len(Placed) :
           /\ Placed[k].panel.type = "TEST_STRIP" /\ Placed[j].panel.type # "TEST_STRIP"
           /\ Placed[j].sheet >= 1 /\ Placed[k].sheet = Placed[j].sheet

\* C28: when the width and the height of every input panel fit the sheet,
\* every placed panel lies inside the sheet.
C28_InsideSheet ==
    (/\ Returned
     /\ \A i \in 1..Len(lay.panels) :
            lay.panels[i].width <= lay.sheet_width /\ lay.panels[i].height <= lay.sheet_height) =>
        \A k \in 1..Len(Placed) :
            /\ Placed[k].origin.x + Placed[k].panel.width <= lay.sheet_width
            /\ Placed[k].origin.y + Placed[k].panel.height <= lay.sheet_height

\* C29: the sheet indices of the result are 0 .. max, each with a panel: the
\* number of sheets the caller reports is the number of files written.
C29_SheetsContiguous ==
    Returned =>
        /\ \A n \in 0..NumSheets(Placed) - 1 : \E k \in 1..Len(Placed) : Placed[k].sheet = n
        /\ NumSheets(Placed) = Cardinality(SheetsWritten(Placed))

Disjoint(a, b) ==
    \/ a.origin.x + a.panel.width <= b.origin.x
    \/ b.origin.x + b.panel.width <= a.origin.x
    \/ a.origin.y + a.panel.height <= b.origin.y
    \/ b.origin.y + b.panel.height <= a.origin.y

\* C30: no two panels placed on the same sheet overlap.
C30_NoOverlap ==
    \A k \in 1..Len(Placed), j \in 1..Len(Placed) :
        (k # j /\ Placed[k].sheet = Placed[j].sheet) => Disjoint(Placed[k], Placed[j])

\* a sheet holding a turned panel, a panel wider than the sheet and a third
\* panel
C30_Witness ==
    /\ Returned
    /\ \E k \in 1..Len(Placed), j \in 1..Len(Placed), m \in 1..Len(Placed) :
           /\ k # j /\ j # m /\ k # m
           /\ Placed[k].sheet = Placed[j].sheet /\ Placed[j].sheet = Placed[m].sheet
           /\ Placed[k].panel.width # InputOf(Placed[k]).width
           /\ Placed[j].panel.width > lay.sheet_width

====
